---------------------------- MODULE Spec2Model ----------------------------
(***************************************************************************)
(* A model of ghrequestor's fetch session (class RequestorAction): one     *)
(* single-resource fetch (_get) driven through the requestretry transport  *)
(* with the session's retry and delay strategies, the proactive rate-limit *)
(* governor, and the pagination driver (_getAll) built on top of it.  The  *)
(* static helpers of GHRequestor (mergeOptions, flattenResponses) are      *)
(* studied on their own under SpecStatic, sessions configured with etags   *)
(* under SpecEtags, with the caller's own strategies under SpecStrategies, *)
(* with a completion callback under SpecCallback, two successive runs of   *)
(* a pre-configured requestor under SpecTwice, two overlapping calls under *)
(* SpecOverlap, termination under fair scheduling under SpecLive, the      *)
(* session behind the request hook of the test suite under SpecHook, a     *)
(* paginated fetch over the longer chain of pages of the test suite under  *)
(* SpecChain, and sessions whose budget allows several retries of one page *)
(* under SpecRetries.                                                      *)
(*                                                                         *)
(* The transport (requestretry) is an external collaborator.  Its contract *)
(* as the session uses it: a request makes at most options.maxAttempts     *)
(* attempts; after every attempt it stamps response.attempts, then calls   *)
(* options.retryStrategy(err, response); when that approves and attempts   *)
(* remain it calls options.delayStrategy(err, response), waits the         *)
(* returned time on a timer and attempts again; otherwise it hands         *)
(* (err, response, body) to the completion callback given by _get.  Its    *)
(* get helper writes the url and the verb on the options it is handed.  An *)
(* error it reports is an error object, with or without a response.        *)
(***************************************************************************)
EXTENDS Integers, Sequences, FiniteSets

(***************************************************************************)
(* Bounds of the model.                                                    *)
(***************************************************************************)
MaxAttemptsBound == 2
MaxPages == 2
\* Pure-function specifications: the longest sequence of page responses
\* handed to flattenResponses and the longest page body.
MaxResponses == 2
MaxBody == 2

(***************************************************************************)
(* Program constants.                                                      *)
(***************************************************************************)
DefaultRetryDelay == 500
DefaultForbiddenDelay == 180000
DefaultTokenLowerBound == 500
MinSleep == 2000

\* JavaScript's undefined for a numeric field (attempts, rateLimitDelay), and
\* NaN for a quota header that is absent or does not parse as a number.
Undefined == 0 - 1
NaN == 0 - 2

NoError == ""
\* new Error('bummer'): the error object a failed attempt is reported with.
NetworkError == "bummer"
\* The string 'bummer' passed where an error object is expected.
StringError == "'bummer'"
\* An error that is an object: a property can be assigned to it.
IsErrorObject(err) == err = NetworkError

\* statusCode: null, on the response that comes along with an error.
NullStatus == 0 - 1

(***************************************************************************)
(* State.                                                                  *)
(***************************************************************************)
VARIABLES
  options,      \* this.options: the merged configuration of the session
  entry,        \* the public operation called: "none", "get", "getAll"
  activity,     \* this.activity: one Activity Record per page fetch
  result,       \* this.result: the responses gathered by _getAll
  pc,           \* "idle", "sending", "retryWait", "throttleWait", "done",
                \* "thrown"
  cur,          \* index in activity of the record closed over by _get
  attempts,     \* the transport request's attempt counter
  attemptsLeft, \* the transport request's remaining attempts
  timer,        \* instant at which the pending timer fires
  pending,      \* the response held by the pending proactive-delay timer
  now,          \* Date.now()
  outcome,      \* what the caller's promise was settled with
  trace,        \* the attempts and deliveries of the page last answered
  request,      \* headers of the options _get handed to the transport
  input,        \* arguments: of the session's constructor, of a static helper
  output,       \* what the static helper, or getAll's flattening, returned
  call,         \* the call made on the session: callback given, what it returned
  sessions      \* the sessions of two calls made on one requestor template

\* The state of a fetch session, and the scratch state of the static helpers.
session == <<options, entry, activity, result, pc, cur, attempts,
             attemptsLeft, timer, pending, now, outcome, trace, request,
             call>>
pure == <<input, output>>
aside == <<input, output, sessions>>

vars == <<options, entry, activity, result, pc, cur, attempts, attemptsLeft,
          timer, pending, now, outcome, trace, request, input, output, call,
          sessions>>

(***************************************************************************)
(* Values.                                                                 *)
(***************************************************************************)
\* A response as the session reads it.  statusCode 0 stands for "no response".
NoResponse ==
  [statusCode |-> 0, remaining |-> NaN, reset |-> NaN, link |-> "",
   page |-> 0, url |-> 0,
   body |-> [isArray |-> TRUE, items |-> <<>>, value |-> 0],
   attempts |-> Undefined,
   _forbiddenDelay |-> Undefined]

HasResponse(response) == response.statusCode # 0

\* const activity = {}
NewActivity ==
  [attempts |-> Undefined, hasDelays |-> FALSE, delays |-> <<>>,
   rateLimitDelay |-> Undefined]

\* The observations kept of one page: every attempt's outcome with the retry
\* decision taken on it, when its final outcome reached _get's callback, the
\* proactive delay computed for it, and when and how often it was delivered;
\* and the number of attempts the transport has completed in the session.
NewTrace(p) ==
  [page |-> p, tries |-> <<>>, delivered |-> 0, receivedAt |-> Undefined,
   deliveredAt |-> Undefined, toSleep |-> Undefined, attempted |-> 0]

NoOutcome ==
  [kind |-> "pending", error |-> NoError, response |-> NoResponse,
   result |-> <<>>, activity |-> <<>>, settled |-> 0]

\* parseInt(header) || 0
ParseIntOr0(header) == IF header = NaN THEN 0 ELSE header

\* the relations of a link header: parse(response.headers.link).next
HasNext(link) == link = "next"

(***************************************************************************)
(* RequestorAction._defaultOptions merged with the caller's options.       *)
(***************************************************************************)
_defaultOptions ==
  [json |-> TRUE,
   headers |-> [h \in {"User-Agent"} |-> "ghrequestor"],
   maxAttempts |-> 5, retryDelay |-> DefaultRetryDelay,
   forbiddenDelay |-> DefaultForbiddenDelay, delayOnThrottle |-> TRUE,
   tokenLowerBound |-> DefaultTokenLowerBound, mode |-> "live"]

\* The caller's options the model explores: every attempt budget, the
\* governor on and off, test and live mode; the retry of a 403 is switched on
\* in the live sessions with the governor on.
GivenOptions ==
  {o \in [maxAttempts : 1..MaxAttemptsBound,
          forbiddenDelay : {0, DefaultForbiddenDelay},
          delayOnThrottle : BOOLEAN,
          mode : {"test", "live"}] :
     o.forbiddenDelay # 0 => (o.delayOnThrottle /\ o.mode = "live")}

\* null or undefined passed where an options object is expected.
Null == [null |-> TRUE]
IsNull(o) == "null" \in DOMAIN o

\* extend({}, a, b): every key of a and of b, b's value winning.
Extend(a, b) ==
  [k \in DOMAIN a \cup DOMAIN b |-> IF k \in DOMAIN b THEN b[k] ELSE a[k]]

\* options.headers as extend reads it: an absent map contributes nothing.
HeadersOf(o) == IF "headers" \in DOMAIN o THEN o.headers ELSE <<>>

\* Mutant: the caller's header map replaces the default one.
mergeOptionsShallow(defaultOptions, givenOptions) ==
  IF IsNull(givenOptions) THEN defaultOptions
  ELSE IF IsNull(defaultOptions) THEN givenOptions
  ELSE Extend(defaultOptions, givenOptions)

\* static mergeOptions(defaultOptions, givenOptions)
mergeOptions(defaultOptions, givenOptions) ==
  IF IsNull(givenOptions) THEN defaultOptions
  ELSE IF IsNull(defaultOptions) THEN givenOptions
  ELSE LET headers == Extend(HeadersOf(defaultOptions),
                             HeadersOf(givenOptions))
       IN Extend(Extend(defaultOptions, givenOptions),
                 [headers |-> headers])

\* RequestorAction's constructor: the merged options, with retryStrategy and
\* delayStrategy set to the session's own bound strategies.
RequestorAction(givenOptions) ==
  Extend(mergeOptions(_defaultOptions, givenOptions),
         [retryStrategy |-> "_retryStrategy",
          delayStrategy |-> "_retryDelayStrategy"])

\* The options argument of the session's constructor, as the state keeps it.
ConstructorArguments(givenOptions) ==
  [op |-> "RequestorAction", givenOptions |-> givenOptions]

\* No call made yet: in promise style, and with a completion callback.
NoCall == [callback |-> FALSE, run |-> 0, returned |-> "none"]

(***************************************************************************)
(* Conditional requests: the ETag _get sends with a page's request.        *)
(***************************************************************************)
\* An entry of options.etags that is null or undefined.
NoEtag == ""

\* this.options.etags, the empty sequence when the option is absent.
EtagsOf(o) == IF "etags" \in DOMAIN o THEN o.etags ELSE <<>>

\* Mutant: the ETag is looked up one position too early.
RequestOptionsOffByOne(opts, n) ==
  LET etags == EtagsOf(opts)
      etag == IF n - 1 >= 1 /\ n - 1 <= Len(etags) THEN etags[n - 1]
              ELSE NoEtag
  IN IF etag # NoEtag
     THEN mergeOptions(opts,
                       [headers |-> [h \in {"If-None-Match"} |-> etag]])
     ELSE opts

\* this.options.etags[this.activity.length - 1] once this.activity holds n
\* records: the n-th element, NoEtag when there is none.
EtagOfPage(opts, n) ==
  LET etags == EtagsOf(opts)
  IN IF n <= Len(etags) THEN etags[n] ELSE NoEtag

\* The options _get hands to the transport once this.activity holds n
\* records: etags[this.activity.length - 1], the n-th element, when present.
RequestOptions(opts, n) ==
  LET etags == EtagsOf(opts)
      etag == IF n <= Len(etags) THEN etags[n] ELSE NoEtag
  IN IF etag # NoEtag
     THEN mergeOptions(opts,
                       [headers |-> [h \in {"If-None-Match"} |-> etag]])
     ELSE opts

\* RequestorAction._retryStrategyWrapper(target, log, cb): the logging
\* wrapper placed around a retry strategy.
_retryStrategyWrapper(cb) ==
  IF cb = "_retryStrategy" THEN "wrapper of _retryStrategy"
  ELSE "wrapper of a wrapper"

\* _get's local options is this.options itself unless an etag applies to
\* the page, in which case it is a merged copy: another object, whatever
\* its content.
SharesOptions(opts, n) == EtagOfPage(opts, n) = NoEtag

\* request.get(target, options, callback): the transport's get helper writes
\* the target and the verb on the options object it is handed, which is where
\* the request hook reads options.url.  The target of page n is n.
RequestGet(opts, target) == Extend(opts, [url |-> target, method |-> "GET"])

\* this.options when _get returns: the wrapper is put on the local options
\* before request.get, the helper writes the target on them, and the actual
\* strategy is put back right after the call.
OptionsAfterGet(opts, n) ==
  LET local == RequestOptions(opts, n)
      actualRetry == local.retryStrategy
      wrapped == [local EXCEPT !.retryStrategy = _retryStrategyWrapper(@)]
      handed == RequestGet(wrapped, n)
      restored == [handed EXCEPT !.retryStrategy = actualRetry]
  IN IF SharesOptions(opts, n) THEN restored ELSE opts

\* Which object mergeOptions returns: one of its arguments, or a new one.
MergedObject(defaultOptions, givenOptions) ==
  IF IsNull(givenOptions) THEN "defaultOptions"
  ELSE IF IsNull(defaultOptions) THEN "givenOptions"
  ELSE "new"

\* The If-None-Match header of a header map, NoEtag when it has none.
IfNoneMatch(headers) ==
  IF "If-None-Match" \in DOMAIN headers THEN headers["If-None-Match"]
  ELSE NoEtag

(***************************************************************************)
(* Retry policy.                                                           *)
(***************************************************************************)
\* Mutant: a 403 is retried but not marked with the forbidden delay.
RetryStrategyUnmarked403(err, response) ==
  [retry |-> \/ err # NoError
             \/ (HasResponse(response) /\ response.statusCode = 403
                 /\ options.forbiddenDelay # 0)
             \/ (HasResponse(response) /\ response.statusCode >= 500),
   response |-> response]

\* Mutant: server errors are not retried.
RetryStrategyNo5xx(err, response) ==
  IF HasResponse(response) /\ response.statusCode = 403
     /\ options.forbiddenDelay # 0
  THEN [retry |-> TRUE,
        response |-> [response EXCEPT !._forbiddenDelay = options.forbiddenDelay]]
  ELSE [retry |-> err # NoError, response |-> response]

\* Mutant: every client error is retried like a 403.
RetryStrategyAll4xx(err, response) ==
  IF HasResponse(response) /\ response.statusCode = 403
     /\ options.forbiddenDelay # 0
  THEN [retry |-> TRUE,
        response |-> [response EXCEPT !._forbiddenDelay = options.forbiddenDelay]]
  ELSE [retry |-> err # NoError \/ response.statusCode >= 400,
        response |-> response]

\* Mutant: a 403 is retried whatever forbiddenDelay is.
RetryStrategy403Always(err, response) ==
  IF HasResponse(response) /\ response.statusCode = 403
  THEN [retry |-> TRUE,
        response |-> [response EXCEPT !._forbiddenDelay = options.forbiddenDelay]]
  ELSE [retry |-> err # NoError \/ response.statusCode >= 500,
        response |-> response]

\* _retryStrategy reads response.statusCode once the 403 test and err have
\* both failed: with neither an error nor a response that read throws a
\* TypeError.
RetryStrategyThrows(err, response) == err = NoError /\ ~HasResponse(response)

\* static _retryStrategy(err, response, body), bound to the session.  Returns
\* the decision and the response as the strategy leaves it.
_retryStrategy(err, response) ==
  IF HasResponse(response) /\ response.statusCode = 403
     /\ options.forbiddenDelay # 0
  THEN [retry |-> TRUE,
        response |-> [response EXCEPT !._forbiddenDelay = options.forbiddenDelay]]
  ELSE [retry |-> err # NoError \/ response.statusCode >= 500,
        response |-> response]

\* Mutant: the delay entry always carries the forbidden delay.
RetryDelayStrategyWrongValue(act, err, response) ==
  LET forbiddenDelay ==
        IF HasResponse(response) THEN response._forbiddenDelay ELSE Undefined
      last == Len(act)
      entryOf == IF forbiddenDelay # Undefined /\ forbiddenDelay # 0
                 THEN [kind |-> "forbidden", ms |-> forbiddenDelay]
                 ELSE [kind |-> "retry", ms |-> options.forbiddenDelay]
  IN [activity |-> [act EXCEPT ![last].hasDelays = TRUE,
                               ![last].delays = Append(@, entryOf)],
      delay |-> entryOf.ms]

\* static _retryDelayStrategy(err, response, body), bound to the session.
\* Returns the activity sequence as the strategy leaves it and the delay.
\* Mutant: the delay entry is pushed onto the session's first record.
RetryDelayStrategyFirstRecord(act, err, response) ==
  LET forbiddenDelay ==
        IF HasResponse(response) THEN response._forbiddenDelay ELSE Undefined
      entryOf == IF forbiddenDelay # Undefined /\ forbiddenDelay # 0
                 THEN [kind |-> "forbidden", ms |-> forbiddenDelay]
                 ELSE [kind |-> "retry", ms |-> options.retryDelay]
  IN [activity |-> [act EXCEPT ![1].hasDelays = TRUE,
                               ![1].delays = Append(@, entryOf)],
      delay |-> entryOf.ms]

_retryDelayStrategy(act, err, response) ==
  LET forbiddenDelay ==
        IF HasResponse(response) THEN response._forbiddenDelay ELSE Undefined
      last == Len(act)
      entryOf == IF forbiddenDelay # Undefined /\ forbiddenDelay # 0
                 THEN [kind |-> "forbidden", ms |-> forbiddenDelay]
                 ELSE [kind |-> "retry", ms |-> options.retryDelay]
  IN [activity |-> [act EXCEPT ![last].hasDelays = TRUE,
                               ![last].delays = Append(@, entryOf)],
      delay |-> entryOf.ms]

(***************************************************************************)
(* The transport's use of options.retryStrategy and options.delayStrategy. *)
(* A strategy is named: the session's own bound strategies, or strategies  *)
(* of the transport library that a caller may pass.                        *)
(***************************************************************************)
\* The retry strategy of that name applied to one attempt's outcome.
\* HTTPOrNetworkError retries an error or a 5xx status, nothing else.
CallRetryStrategy(name, err, response) ==
  IF name = "_retryStrategy" THEN _retryStrategy(err, response)
  ELSE [retry |-> err # NoError
                  \/ (HasResponse(response) /\ response.statusCode >= 500),
        response |-> response]

\* The delay strategy of that name.  A caller's strategy returns its own
\* constant delay and knows nothing of the session's activity.
CallerDelay == 1000
CallDelayStrategy(name, act, err, response) ==
  IF name = "_retryDelayStrategy" THEN _retryDelayStrategy(act, err, response)
  ELSE [activity |-> act, delay |-> CallerDelay]

\* Mutant: the transport allows one attempt more than maxAttempts.
MustRetryOnceMore(approved, left) == approved /\ left >= 0

\* Mutant: the transport retries whenever the strategy approves.
MustRetryIgnoresBudget(approved, left) == approved

\* The transport retries when the strategy approves and attempts remain.
MustRetry(approved, left) == approved /\ left > 0

(***************************************************************************)
(* What the calls return to their caller, synchronously.                   *)
(***************************************************************************)
\* return callback ? null : deferred.promise
GetReturns(callback) == IF callback THEN "null" ELSE "promise"

\* Mutant: getAll returns what _getAll returned.
GetAllReturnsDirectly(callback) == GetReturns(callback)

\* return this._getAll(target, callback).then(...): calling then on the null
\* that _getAll returns when given a callback throws a TypeError.
GetAllReturns(callback) ==
  IF GetReturns(callback) = "null" THEN "TypeError" ELSE "promise"

\* The activity that travels with a completed getAll result: attached by the
\* then() of getAll, which does not run when a callback was given.
ResultActivity(callback, act) == IF callback THEN <<>> ELSE act

(***************************************************************************)
(* Rate-limit governor.                                                    *)
(***************************************************************************)
Max(a, b) == IF a >= b THEN a ELSE b

\* Mutant: no two-second floor on the proactive delay.
ToSleepNoFloor(reset, t) == reset * 1000 - t

\* Mutant: the reset instant is taken as milliseconds.
ToSleepFromMilliseconds(reset, t) == Max(reset - t, MinSleep)

\* const toSleep = Math.max(reset * 1000 - Date.now(), 2000)
ToSleep(reset, t) == Max(reset * 1000 - t, MinSleep)

\* self.options.delayOnThrottle && remaining < self.options.tokenLowerBound
\* Mutant: a remaining quota that is not a number is never below the bound.
ThrottledNeedsNumber(response) ==
  /\ options.delayOnThrottle
  /\ response.remaining # NaN
  /\ response.remaining < options.tokenLowerBound

Throttled(response) ==
  /\ options.delayOnThrottle
  /\ ParseIntOr0(response.remaining) < options.tokenLowerBound

\* Mutant: the proactive wait is taken in test mode only.
MustSleepInTestOnly == options.mode = "test"

\* Mutant: the proactive wait is skipped in every mode.
MustSleepNever == FALSE

\* self.options.mode !== 'test'
MustSleep == options.mode # "test"

(***************************************************************************)
(* How _get's completion callback disposes of (err, response).             *)
(***************************************************************************)
\* Mutant: only a status >= 400 counts as a failed response, so that a 304
\* goes on to the governor.
GetDispositionNotModifiedOk(err, response) ==
  IF err # NoError \/ ~HasResponse(response) THEN "error"
  ELSE IF response.statusCode >= 400 THEN "failed"
  ELSE "ok"

GetDisposition(err, response) ==
  IF err # NoError \/ ~HasResponse(response) THEN "error"
  ELSE IF response.statusCode >= 300 THEN "failed"
  ELSE "ok"

\* Mutant: the attempt count is always written to the session's first record.
StampAttemptsFirstRecord(act, i, response, n) ==
  IF HasResponse(response)
  THEN [act EXCEPT ![1].attempts = response.attempts]
  ELSE act

\* Mutant: attempts is stamped from the transport's counter n (err.attempts)
\* when no response arrived.
StampAttemptsAlways(act, i, response, n) ==
  [act EXCEPT ![i].attempts = n]

\* if (response) { activity.attempts = response.attempts; ... }
\* Mutant: the record counts the retries, not the attempts.
StampAttemptsCountsRetries(act, i, response, n) ==
  IF HasResponse(response)
  THEN [act EXCEPT ![i].attempts = response.attempts - 1]
  ELSE act

\* Mutant: the attempt count is written to a fresh record that replaces the
\* page's record.
StampAttemptsFreshRecord(act, i, response, n) ==
  IF HasResponse(response)
  THEN [act EXCEPT ![i] = [NewActivity EXCEPT !.attempts = response.attempts]]
  ELSE act

\* Mutant: without a final response the record keeps the count of the
\* attempts made before the last one.
StampAttemptsLastSeen(act, i, response, n) ==
  IF HasResponse(response)
  THEN [act EXCEPT ![i].attempts = response.attempts]
  ELSE IF n > 1 THEN [act EXCEPT ![i].attempts = n - 1]
  ELSE act

StampAttempts(act, i, response, n) ==
  IF HasResponse(response)
  THEN [act EXCEPT ![i].attempts = response.attempts]
  ELSE act

(***************************************************************************)
(* One step of _getAll's callback: the result sequence it leaves and what  *)
(* it does next.                                                           *)
(***************************************************************************)
\* Mutant: a failing response does not stop pagination.
GetAllStepNoBail(res, err, response) ==
  IF err # NoError THEN [result |-> res, disposition |-> "error"]
  ELSE IF response.link # "" /\ HasNext(response.link)
  THEN [result |-> Append(res, response), disposition |-> "next"]
  ELSE [result |-> Append(res, response), disposition |-> "complete"]

\* Mutant: an error completes the call with what was gathered so far.
GetAllStepPartial(res, err, response) ==
  IF err # NoError THEN [result |-> res, disposition |-> "complete"]
  ELSE IF response.statusCode >= 300 /\ response.statusCode # 304
  THEN [result |-> Append(res, response), disposition |-> "bail"]
  ELSE IF response.link # "" /\ HasNext(response.link)
  THEN [result |-> Append(res, response), disposition |-> "next"]
  ELSE [result |-> Append(res, response), disposition |-> "complete"]

\* Mutant: the link header is ignored, the first page completes the call.
GetAllStepIgnoresLink(res, err, response) ==
  IF err # NoError THEN [result |-> res, disposition |-> "error"]
  ELSE IF response.statusCode >= 300 /\ response.statusCode # 304
  THEN [result |-> Append(res, response), disposition |-> "bail"]
  ELSE [result |-> Append(res, response), disposition |-> "complete"]

\* Mutant: a 304 page stops pagination like any other status >= 300.
GetAllStepNotModifiedBails(res, err, response) ==
  IF err # NoError THEN [result |-> res, disposition |-> "error"]
  ELSE IF response.statusCode >= 300
  THEN [result |-> Append(res, response), disposition |-> "bail"]
  ELSE IF response.link # "" /\ HasNext(response.link)
  THEN [result |-> Append(res, response), disposition |-> "next"]
  ELSE [result |-> Append(res, response), disposition |-> "complete"]

\* Mutant: after a transport error the run goes on to a further request.
GetAllStepErrorContinues(res, err, response) ==
  IF err # NoError THEN [result |-> res, disposition |-> "next"]
  ELSE IF response.statusCode >= 300 /\ response.statusCode # 304
  THEN [result |-> Append(res, response), disposition |-> "bail"]
  ELSE IF response.link # "" /\ HasNext(response.link)
  THEN [result |-> Append(res, response), disposition |-> "next"]
  ELSE [result |-> Append(res, response), disposition |-> "complete"]

GetAllStep(res, err, response) ==
  IF err # NoError THEN [result |-> res, disposition |-> "error"]
  ELSE IF response.statusCode >= 300 /\ response.statusCode # 304
  THEN [result |-> Append(res, response), disposition |-> "bail"]
  ELSE IF response.link # "" /\ HasNext(response.link)
  THEN [result |-> Append(res, response), disposition |-> "next"]
  ELSE [result |-> Append(res, response), disposition |-> "complete"]

(***************************************************************************)
(* The page responses handed to flattenResponses, and the supplier.        *)
(***************************************************************************)
\* response.url of the page responses handed to flattenResponses.
Urls == 1..MaxResponses

\* n items numbered from base + 1.
Items(base, n) == [i \in 1..n |-> base + i]

\* A body that is an array of items, and a body that is a single object.
ArrayBody(items) == [isArray |-> TRUE, items |-> items, value |-> 0]
ObjectBody(v) == [isArray |-> FALSE, items |-> <<>>, value |-> v]

\* The bodies a 200 page at url u may carry: 0..MaxBody items, or an object.
Bodies(u) ==
  {ArrayBody(Items(10 * u, n)) : n \in 0..MaxBody} \cup {ObjectBody(10 * u)}

PageResponse(code, u, body) == [statusCode |-> code, url |-> u, body |-> body]

PageResponses ==
  UNION {{PageResponse(200, u, b) : b \in Bodies(u)} : u \in Urls}
  \cup {PageResponse(code, u, ArrayBody(<<>>)) :
          code \in {304, 404, 500}, u \in Urls}

\* The content supplier: absent, or a cache that answers a URL with an array
\* of its own items.
NoSupplier == [present |-> FALSE, content |-> <<>>]
Cache(k) ==
  [present |-> TRUE,
   content |-> [u \in Urls |->
                  ArrayBody(Items(100 + 10 * u, (u + k) % (MaxBody + 1)))]]
Suppliers == {NoSupplier, Cache(0), Cache(1)}

\* responses.activity: one record per page, as getAllResponses leaves it.
ActivityOf(n, v) ==
  [i \in 1..n |-> [NewActivity EXCEPT !.attempts = IF v = 1 THEN 1 ELSE i + 1]]

\* The array of page responses with its activity property.
ResponseArray(pages, v) ==
  [pages |-> pages, activity |-> ActivityOf(Len(pages), v)]

(***************************************************************************)
(* GHRequestor.flattenResponses.                                           *)
(***************************************************************************)
\* new Error(`304 response encountered but no content supplier found`)
NoSupplierError ==
  [message |-> "304 response encountered but no content supplier found",
   statusCode |-> 0]

\* new Error(`Cannot flatten response with status code: ${statusCode}`)
StatusCodeError(code) ==
  [message |-> "Cannot flatten response with status code", statusCode |-> code]

NoFlattenError == [message |-> "", statusCode |-> 0]

\* Mutant: a 304 page without a supplier contributes nothing.
ChunkSkipsNotModified(response, supplier) ==
  IF response.statusCode = 200
  THEN [ok |-> TRUE, value |-> response.body, error |-> NoFlattenError]
  ELSE IF response.statusCode = 304
  THEN IF ~supplier.present
       THEN [ok |-> TRUE, value |-> ArrayBody(<<>>), error |-> NoFlattenError]
       ELSE [ok |-> TRUE, value |-> supplier.content[response.url],
             error |-> NoFlattenError]
  ELSE [ok |-> FALSE, value |-> ArrayBody(<<>>),
        error |-> StatusCodeError(response.statusCode)]

\* Mutant: a response that is neither 200 nor 304 contributes nothing.
ChunkSkipsBadStatus(response, supplier) ==
  IF response.statusCode = 200
  THEN [ok |-> TRUE, value |-> response.body, error |-> NoFlattenError]
  ELSE IF response.statusCode = 304
  THEN IF ~supplier.present
       THEN [ok |-> FALSE, value |-> ArrayBody(<<>>), error |-> NoSupplierError]
       ELSE [ok |-> TRUE, value |-> supplier.content[response.url],
             error |-> NoFlattenError]
  ELSE [ok |-> TRUE, value |-> ArrayBody(<<>>), error |-> NoFlattenError]

\* The promise the mapping function returns for one response: fulfilled with
\* the page's chunk of values, or rejected.
Chunk(response, supplier) ==
  IF response.statusCode = 200
  THEN [ok |-> TRUE, value |-> response.body, error |-> NoFlattenError]
  ELSE IF response.statusCode = 304
  THEN IF ~supplier.present
       THEN [ok |-> FALSE, value |-> ArrayBody(<<>>), error |-> NoSupplierError]
       ELSE [ok |-> TRUE, value |-> supplier.content[response.url],
             error |-> NoFlattenError]
  ELSE [ok |-> FALSE, value |-> ArrayBody(<<>>),
        error |-> StatusCodeError(response.statusCode)]

\* Mutant: each chunk is put in front of what was gathered so far.
ConcatInFront(flat, element) ==
  IF element.isArray THEN element.items \o flat
  ELSE <<element.value>> \o flat

\* result.concat(element): an array is spread, anything else is appended.
Concat(flat, element) ==
  IF element.isArray THEN flat \o element.items
  ELSE Append(flat, element.value)

\* resolvedChunks.reduce((result, element) => result.concat(element), [])
\* over the first k chunks.
RECURSIVE Reduce(_, _)
Reduce(chunks, k) ==
  IF k = 0 THEN <<>> ELSE Concat(Reduce(chunks, k - 1), chunks[k].value)

\* Mutant: the flat list carries no activity.
FlatActivityDropped(responses) == <<>>

\* result.activity = responses.activity
FlatActivity(responses) == responses.activity

\* static flattenResponses(responses, supplier): what the returned promise
\* settles with.  Q.all rejects with the rejection of the first chunk that
\* is rejected.
flattenResponses(responses, supplier) ==
  LET chunks == [i \in 1..Len(responses.pages) |->
                   Chunk(responses.pages[i], supplier)]
      rejected == {i \in 1..Len(chunks) : ~chunks[i].ok}
  IN IF rejected # {}
     THEN LET first == CHOOSE i \in rejected : \A j \in rejected : i <= j
          IN [kind |-> "rejected", value |-> <<>>, activity |-> <<>>,
              error |-> chunks[first].error]
     ELSE [kind |-> "resolved", value |-> Reduce(chunks, Len(chunks)),
           activity |-> FlatActivity(responses), error |-> NoFlattenError]

\* The promise of a static helper, or of getAll, before it is settled.
NoOutput == [kind |-> "none"]

(***************************************************************************)
(* The environment: what the server or the network answers to one attempt  *)
(* on page p at instant t.  The chain of pages is finite: page MaxPages    *)
(* carries no next link.  A failing response carries a low remaining quota *)
(* and, when there is a later page, a next link.  A link header is "next"  *)
(* (it names a next page), "prev" (well formed, without a next relation),  *)
(* "malformed" (not of the form <url>; rel="name"), or "" (absent or the   *)
(* empty string, which the session does not tell apart).                   *)
(***************************************************************************)
QuotaHeaders(t) ==
  { [remaining |-> 4000, reset |-> (t \div 1000) + 5],
    [remaining |-> 20, reset |-> (t \div 1000) + 5],
    [remaining |-> 20, reset |-> (t \div 1000) + 1],
    [remaining |-> NaN, reset |-> NaN] }

LowQuota(t) == [remaining |-> 20, reset |-> (t \div 1000) + 5]

Links(p) == IF p < MaxPages THEN {"", "next"} ELSE {""}

\* The body of the p-th page of the chain: p items of its own when the
\* status is 200, no content otherwise.
PageBody(code, p) ==
  IF code = 200 THEN ArrayBody(Items(10 * p, p)) ELSE ArrayBody(<<>>)

MakeResponse(code, q, l, p) ==
  [statusCode |-> code, remaining |-> q.remaining, reset |-> q.reset,
   link |-> l, page |-> p, url |-> p, body |-> PageBody(code, p),
   attempts |-> Undefined, _forbiddenDelay |-> Undefined]

\* The response that comes along with an error: no status, the page's body,
\* a link header without next.
ErrorResponse(p) ==
  [statusCode |-> NullStatus, remaining |-> 4000, reset |-> 0,
   link |-> "prev", page |-> p, url |-> p, body |-> PageBody(200, p),
   attempts |-> Undefined, _forbiddenDelay |-> Undefined]

Outcomes(p, t) ==
  {[err |-> NetworkError, response |-> NoResponse],
   [err |-> NetworkError, response |-> ErrorResponse(p)]}
  \cup {[err |-> NoError, response |-> MakeResponse(200, q, l, p)] :
          q \in QuotaHeaders(t), l \in Links(p)}
  \cup {[err |-> NoError,
         response |-> MakeResponse(200, [remaining |-> 4000, reset |-> NaN],
                                   l, p)] : l \in {"prev", "malformed"}}
  \cup {[err |-> NoError,
         response |-> MakeResponse(200, [remaining |-> 20,
                                         reset |-> (t \div 1000) - 5],
                                   "", p)]}
  \cup {[err |-> NoError, response |-> MakeResponse(304, LowQuota(t), l, p)] :
          l \in Links(p)}
  \cup {[err |-> NoError,
         response |-> MakeResponse(code, LowQuota(t),
                                   IF p < MaxPages THEN "next" ELSE "", p)] :
          code \in {403, 404, 500}}

\* Mutant: every session's strategies are bound to the first session.
BoundToFirst(s) == 1

\* RequestorAction._retryStrategy.bind(this), _retryDelayStrategy.bind(this):
\* the session whose options and activity the strategies of session s use.
BoundSession(s) == s

\* What the server holds changes between one run and the next: the items
\* served to the second run are not those served to the first.
ServedBody(body, run) ==
  [body EXCEPT !.items = [i \in DOMAIN @ |-> @[i] + 100 * (run - 1)]]

\* Mutant: _initialize leaves the list as it is.
InitializeKeeps(previous) == previous

\* _initialize: this.result = []; this.activity = [].
_initialize(previous) == <<>>

(***************************************************************************)
(* Initial state: a session constructed with some options, nothing called. *)
(***************************************************************************)
Init ==
  /\ \E g \in GivenOptions :
       /\ options = RequestorAction(g)
       /\ input = ConstructorArguments(g)
  /\ entry = "none"
  /\ activity = <<>>
  /\ result = <<>>
  /\ pc = "idle"
  /\ cur = 0
  /\ attempts = 0
  /\ attemptsLeft = 0
  /\ timer = 0
  /\ pending = NoResponse
  /\ now = 10000
  /\ outcome = NoOutcome
  /\ trace = NewTrace(0)
  /\ request = <<>>
  /\ output = NoOutput
  /\ call = NoCall
  /\ sessions = <<>>

(***************************************************************************)
(* Delivery of a page's outcome.                                           *)
(***************************************************************************)
\* The trace with the delivery of the page's outcome at instant t noted.
Delivered(tr, t) ==
  [tr EXCEPT !.delivered = @ + 1, !.deliveredAt = t]

\* Mutant: the error carries the record of the failing page only.
ErrorActivityLastOnly(act) == <<act[Len(act)]>>

\* err.activity = self.activity
ErrorActivity(act) == act

\* Mutant: a response with status >= 300 rejects the promise, as the
\* superseded GHRequestor._get did.
SettleGetRejectsFailed(act, err, response, tr, t) ==
  /\ outcome' = [kind |-> IF err # NoError \/ response.statusCode >= 300
                          THEN "rejected" ELSE "resolved",
                 error |-> err, response |-> response, result |-> <<>>,
                 activity |-> IF err # NoError THEN ErrorActivity(act)
                              ELSE act,
                 settled |-> outcome.settled + 1]
  /\ activity' = act
  /\ trace' = Delivered(tr, t)
  /\ pc' = "done"
  /\ now' = t
  /\ pending' = NoResponse
  /\ UNCHANGED <<options, entry, result, cur, attempts, attemptsLeft, timer,
                 request>>

\* _get without a callback: deferred.reject(err) or deferred.resolve(response).
SettleGet(act, err, response, tr, t) ==
  /\ outcome' = [kind |-> IF err # NoError THEN "rejected" ELSE "resolved",
                 error |-> err, response |-> response, result |-> <<>>,
                 activity |-> IF err # NoError THEN ErrorActivity(act)
                              ELSE act,
                 settled |-> outcome.settled + 1]
  /\ activity' = act
  /\ trace' = Delivered(tr, t)
  /\ pc' = "done"
  /\ now' = t
  /\ pending' = NoResponse
  /\ UNCHANGED <<options, entry, result, cur, attempts, attemptsLeft, timer,
                 request>>

\* The callback _getAll hands to _get, and getAll's then() on completion.
GetAllCallback(act, err, response, tr, t) ==
  LET step == GetAllStep(result, err, response)
  IN /\ result' = step.result
     /\ trace' = Delivered(tr, t)
     /\ now' = t
     /\ pending' = NoResponse
     /\ UNCHANGED <<entry, timer>>
     /\ IF step.disposition = "next"
        THEN \* self._getAll(links.next.url, realCallback) -> self._get(...)
             /\ activity' = Append(act, NewActivity)
             /\ options' = OptionsAfterGet(options, Len(act) + 1)
             /\ request' = RequestOptions(options, Len(act) + 1).headers
             /\ cur' = Len(act) + 1
             /\ attempts' = 1
             /\ attemptsLeft' = options.maxAttempts - 1
             /\ pc' = "sending"
             /\ UNCHANGED outcome
        ELSE /\ activity' = act
             /\ pc' = "done"
             /\ UNCHANGED <<options, cur, attempts, attemptsLeft, request>>
             /\ outcome' =
                  IF step.disposition = "error"
                  THEN [kind |-> "rejected", error |-> err,
                        response |-> response, result |-> <<>>,
                        activity |-> ErrorActivity(act),
                        settled |-> outcome.settled + 1]
                  ELSE [kind |-> "resolved", error |-> NoError,
                        response |-> NoResponse, result |-> step.result,
                        activity |-> ResultActivity(call.callback, act),
                        settled |-> outcome.settled + 1]

\* callback ? callback(err, response, body) : deferred.resolve / reject
Deliver(act, err, response, tr, t) ==
  IF entry = "get"
  THEN SettleGet(act, err, response, tr, t)
  ELSE GetAllCallback(act, err, response, tr, t)

(***************************************************************************)
(* The completion callback _get gives to the transport.                    *)
(***************************************************************************)
\* The error branch throws a TypeError before anything is delivered: with
\* neither an error nor a response, new Error(response.statusMessage) reads a
\* property of undefined; with an error that is a string, err.response =
\* response cannot create the property.
CallbackThrows(err, response) ==
  IF err = NoError THEN ~HasResponse(response) ELSE ~IsErrorObject(err)

\* An exception leaves the callback: the call is never settled.
Throw(act, tr) ==
  /\ activity' = act
  /\ trace' = tr
  /\ pc' = "thrown"
  /\ UNCHANGED <<options, entry, result, cur, attempts, attemptsLeft, timer,
                 pending, now, outcome, request>>

GetCallback(err, response, tr) ==
  LET act1 == StampAttempts(activity, cur, response, attempts)
      tr1 == [tr EXCEPT !.receivedAt = now]
      disposition == GetDisposition(err, response)
  IN IF disposition = "error"
     THEN IF CallbackThrows(err, response)
          THEN Throw(act1, tr1)
          ELSE Deliver(act1, err, response, tr1, now)
     ELSE IF disposition = "failed"
     THEN Deliver(act1, NoError, response, tr1, now)
     ELSE IF Throttled(response)
     THEN LET toSleep == ToSleep(ParseIntOr0(response.reset), now)
              act2 == [act1 EXCEPT ![cur].rateLimitDelay = toSleep]
              tr2 == [tr1 EXCEPT !.toSleep = toSleep]
          IN IF MustSleep
             THEN \* return setTimeout(() => ..., toSleep)
                  /\ activity' = act2
                  /\ trace' = tr2
                  /\ pending' = response
                  /\ timer' = now + toSleep
                  /\ pc' = "throttleWait"
                  /\ UNCHANGED <<options, entry, result, cur, attempts,
                                 attemptsLeft, now, outcome, request>>
             ELSE Deliver(act2, NoError, response, tr2, now)
     ELSE Deliver(act1, NoError, response, tr1, now)

(***************************************************************************)
(* Operations.                                                             *)
(***************************************************************************)
\* _initialize, then the first _get: it pushes a fresh Activity Record and
\* hands the request to the transport, which makes its first attempt.
StartPage ==
  /\ activity' = Append(_initialize(activity), NewActivity)
  /\ result' = _initialize(result)
  /\ request' = RequestOptions(options, 1).headers
  /\ cur' = 1
  /\ attempts' = 1
  /\ attemptsLeft' = options.maxAttempts - 1
  /\ pc' = "sending"
  /\ options' = OptionsAfterGet(options, 1)
  /\ UNCHANGED <<timer, pending, now, outcome, trace>>

\* RequestorAction.get(target)
get ==
  /\ pc = "idle"
  /\ entry' = "get"
  /\ call' = [call EXCEPT !.run = @ + 1,
                          !.returned = GetReturns(call.callback)]
  /\ StartPage
  /\ UNCHANGED aside

\* RequestorAction.getAll(target)
getAll ==
  /\ pc = "idle"
  /\ entry' = "getAll"
  /\ call' = [call EXCEPT !.run = @ + 1,
                          !.returned = GetAllReturns(call.callback)]
  /\ StartPage
  /\ UNCHANGED aside

\* One attempt completes: the transport stamps response.attempts, asks the
\* retry strategy, and either schedules the next attempt after the delay the
\* delay strategy returns or replies to _get's callback.
Answer(o) ==
  LET response == IF HasResponse(o.response)
                  THEN [o.response EXCEPT
                          !.attempts = attempts,
                          !.body = ServedBody(@, call.run)]
                  ELSE o.response
      throws == /\ options.retryStrategy = "_retryStrategy"
                /\ RetryStrategyThrows(o.err, response)
      rs == CallRetryStrategy(options.retryStrategy, o.err, response)
      mustRetry == ~throws /\ MustRetry(rs.retry, attemptsLeft)
      try == [error |-> o.err # NoError,
              statusCode |-> response.statusCode,
              link |-> response.link,
              ifNoneMatch |-> IfNoneMatch(request),
              remaining |-> response.remaining,
              reset |-> response.reset,
              approved |-> ~throws /\ rs.retry, retried |-> mustRetry]
      tr0 == IF trace.page = cur THEN trace
             ELSE [NewTrace(cur) EXCEPT !.attempted = trace.attempted]
      tr == [tr0 EXCEPT !.tries = Append(@, try), !.attempted = @ + 1]
  IN IF throws
     THEN \* the strategy throws inside the transport: no reply is made
          Throw(activity, tr)
     ELSE IF mustRetry
     THEN LET ds == CallDelayStrategy(options.delayStrategy, activity,
                                      o.err, rs.response)
          IN /\ activity' = ds.activity
             /\ timer' = now + ds.delay
             /\ pc' = "retryWait"
             /\ trace' = tr
             /\ UNCHANGED <<options, entry, result, cur, attempts,
                            attemptsLeft, pending, now, outcome,
                            request>>
     ELSE GetCallback(o.err, rs.response, tr)

Respond ==
  /\ pc = "sending"
  /\ UNCHANGED <<aside, call>>
  /\ \E o \in Outcomes(cur, now) : Answer(o)

\* The retry timer fires: the transport makes its next attempt.
RetryTimer ==
  /\ pc = "retryWait"
  /\ now' = timer
  /\ attempts' = attempts + 1
  /\ attemptsLeft' = attemptsLeft - 1
  /\ pc' = "sending"
  /\ UNCHANGED <<options, entry, activity, result, cur, timer, pending,
                 outcome, trace, request, call, aside>>

\* The proactive-delay timer fires, at its deadline: the held response is
\* delivered.
ThrottleTimer ==
  /\ pc = "throttleWait"
  /\ UNCHANGED <<aside, call>>
  /\ Deliver(activity, NoError, pending, trace, timer)

\* Mutant: the continuation hands flattenResponses a supplier as well.
ThenArgumentsWithSupplier(value) == [responses |-> value, supplier |-> Cache(0)]

\* .then(GHRequestor.flattenResponses): the continuation is called with the
\* value of the promise and nothing else, its supplier parameter is undefined.
ThenArguments(value) == [responses |-> value, supplier |-> NoSupplier]

\* GHRequestor.getAll: getAllResponses(...).then(GHRequestor.flattenResponses).
\* Once the promise of getAllResponses is settled, the responses it was
\* resolved with are flattened, with no supplier; a rejection passes through.
getAllThen ==
  /\ entry = "getAll"
  /\ pc = "done"
  /\ call.returned = "promise"
  /\ output.kind = "none"
  /\ output' =
       IF outcome.kind = "resolved"
       THEN LET args == ThenArguments([pages |-> outcome.result,
                                       activity |-> outcome.activity])
            IN flattenResponses(args.responses, args.supplier)
       ELSE [kind |-> "rejected", value |-> <<>>, activity |-> <<>>,
             error |-> [message |-> outcome.error, statusCode |-> 0]]
  /\ UNCHANGED <<session, input, sessions>>

Next == get \/ getAll \/ Respond \/ RetryTimer \/ ThrottleTimer \/ getAllThen

Spec == Init /\ [][Next]_vars

(***************************************************************************)
(* The session under the request hook of the test suite, which answers an  *)
(* attempt with whatever its list of fixtures holds: besides an error      *)
(* object or a response, the string error createMultiPageResponse puts     *)
(* next to its response, and an entry with neither error nor response.     *)
(***************************************************************************)
HookOutcomes(p, t) ==
  {[err |-> NetworkError, response |-> NoResponse],
   [err |-> StringError, response |-> ErrorResponse(p)],
   [err |-> NoError, response |-> NoResponse]}
  \cup {[err |-> NoError,
         response |-> MakeResponse(200, [remaining |-> 4000, reset |-> 0],
                                   l, p)] : l \in Links(p)}

HookRespond ==
  /\ pc = "sending"
  /\ UNCHANGED <<aside, call>>
  /\ \E o \in HookOutcomes(cur, now) : Answer(o)

NextHook == get \/ getAll \/ HookRespond \/ RetryTimer \/ getAllThen

SpecHook == Init /\ [][NextHook]_vars

(***************************************************************************)
(* Vocabulary of the properties.                                           *)
(***************************************************************************)
\* The page the trace describes, its Activity Record and its attempts.
Traced == trace.page >= 1
Rec == activity[trace.page]
Tries == trace.tries
NTries == Len(trace.tries)
LastTry == trace.tries[Len(trace.tries)]

\* The page's final outcome has been handed to the caller of _get.
PageDelivered == Traced /\ trace.delivered >= 1

\* The page's final outcome has reached _get's completion callback.
PageReceived == Traced /\ trace.receivedAt # Undefined

Transient(try) == try.error \/ try.statusCode >= 500

RetryEntry == [kind |-> "retry", ms |-> options.retryDelay]
ForbiddenEntry == [kind |-> "forbidden", ms |-> options.forbiddenDelay]

(***************************************************************************)
(* C1: for every maxAttempts = N >= 1, a page whose every attempt returns  *)
(* status 500 is attempted exactly N times, never more, and then ends with *)
(* the failing 500 response as the page's terminal outcome; its Activity   *)
(* Record has attempts = N and N - 1 delay entries (delays is absent when  *)
(* N = 1).                                                                 *)
(***************************************************************************)
C1_Always500 ==
  (Traced /\ \A i \in 1..NTries : Tries[i].statusCode = 500) =>
    /\ NTries <= options.maxAttempts
    /\ (NTries = options.maxAttempts) = (trace.delivered = 1)
    /\ PageDelivered =>
         /\ pc = "done"
         /\ Rec.attempts = options.maxAttempts
         /\ Len(Rec.delays) = options.maxAttempts - 1
         /\ Rec.hasDelays = (options.maxAttempts > 1)
         /\ outcome.kind = "resolved"
         /\ entry = "get" => outcome.response.statusCode = 500
         /\ entry = "getAll" =>
              outcome.result[Len(outcome.result)].statusCode = 500

C1_Witness ==
  /\ PageDelivered
  /\ options.maxAttempts = MaxAttemptsBound
  /\ NTries = MaxAttemptsBound
  /\ \A i \in 1..NTries : Tries[i].statusCode = 500
  /\ Rec.attempts = MaxAttemptsBound

(***************************************************************************)
(* C2: when the first k attempts of a page (1 <= k < maxAttempts) each     *)
(* fail with a status >= 500 or a transport error, each of them is retried *)
(* and, when attempt k + 1 returns 200, the fetch succeeds with that       *)
(* response and the page's Activity Record has attempts = k + 1 and        *)
(* exactly k delay entries, each {retry: retryDelay}.                      *)
(***************************************************************************)
C2_TransientThenSuccess ==
  Traced =>
    /\ \A i \in 1..NTries :
         (Transient(Tries[i]) /\ i < options.maxAttempts) => Tries[i].retried
    /\ ( /\ PageDelivered
         /\ NTries >= 2
         /\ \A i \in 1..(NTries - 1) : Transient(Tries[i])
         /\ LastTry.statusCode = 200 ) =>
           /\ Rec.attempts = NTries
           /\ Len(Rec.delays) = NTries - 1
           /\ \A i \in 1..Len(Rec.delays) : Rec.delays[i] = RetryEntry
           /\ entry = "get" =>
                /\ outcome.kind = "resolved"
                /\ outcome.response.statusCode = 200
                /\ outcome.response.attempts = NTries
           /\ entry = "getAll" =>
                /\ outcome.kind # "rejected"
                /\ result[trace.page].statusCode = 200
                /\ result[trace.page].attempts = NTries

C2_Witness ==
  /\ PageDelivered
  /\ NTries = 2
  /\ Tries[1].statusCode = 500
  /\ Tries[2].statusCode = 200
  /\ Rec.attempts = 2
  /\ Rec.delays = <<RetryEntry>>

(***************************************************************************)
(* C3 as claimed: every attempt of every page whose response status is 403 *)
(* has its own {forbidden: forbiddenDelay} entry on the page's Activity    *)
(* Record.                                                                 *)
(***************************************************************************)
C3_Every403HasForbiddenEntry ==
  Traced =>
    \A i \in 1..NTries :
      Tries[i].statusCode = 403 =>
        /\ Len(Rec.delays) >= i
        /\ Rec.delays[i] = ForbiddenEntry

(***************************************************************************)
(* C3 amended: a 403 response that is retried, which is the case exactly   *)
(* when it is not the page's last allowed attempt and forbiddenDelay is    *)
(* not 0, appends one {forbidden: forbiddenDelay} entry and never a retry  *)
(* entry; a 403 on the last allowed attempt, or with forbiddenDelay 0, is  *)
(* the page's final attempt and appends no delay entry.                    *)
(***************************************************************************)
C3_Retried403HasForbiddenEntry ==
  Traced =>
    \A i \in 1..NTries :
      Tries[i].statusCode = 403 =>
        IF i < options.maxAttempts /\ options.forbiddenDelay # 0
        THEN /\ Len(Rec.delays) >= i
             /\ Rec.delays[i] = ForbiddenEntry
        ELSE /\ i = NTries
             /\ Len(Rec.delays) = i - 1
             /\ PageReceived

C3_Witness ==
  /\ Traced
  /\ NTries = 2
  /\ Tries[1].statusCode = 403
  /\ Tries[2].statusCode = 403
  /\ Rec.delays = <<ForbiddenEntry>>
  /\ PageDelivered

(***************************************************************************)
(* C4 as claimed: whatever the configuration, the retry policy approves    *)
(* another attempt if and only if the attempt ended in a transport error,  *)
(* or in a status >= 500, or in a status 403.                              *)
(***************************************************************************)
C4_ApprovesIffErrorOr5xxOr403 ==
  Traced =>
    \A i \in 1..NTries :
      Tries[i].approved =
        (Tries[i].error \/ Tries[i].statusCode >= 500
           \/ Tries[i].statusCode = 403)

(***************************************************************************)
(* C4 amended: the retry policy approves another attempt if and only if    *)
(* the attempt ended in a transport error, or in a status >= 500, or in a  *)
(* status 403 while the configured forbiddenDelay is not 0; it refuses     *)
(* every other status, and a 403 when forbiddenDelay is 0.                 *)
(***************************************************************************)
C4_ApprovesIffRetryable ==
  Traced =>
    \A i \in 1..NTries :
      Tries[i].approved =
        (Tries[i].error \/ Tries[i].statusCode >= 500
           \/ (Tries[i].statusCode = 403 /\ options.forbiddenDelay # 0))

C4_Witness ==
  /\ Traced
  /\ options.forbiddenDelay = 0
  /\ NTries = 2
  /\ Tries[1].error /\ Tries[1].approved
  /\ Tries[2].statusCode = 403 /\ ~Tries[2].approved

(***************************************************************************)
(* C5: a get whose response has a status >= 300 that is neither 403 nor    *)
(* >= 500 (304, 404) is not retried: the promise is resolved, not          *)
(* rejected, with that response, carrying an activity sequence of one      *)
(* record; when that response answers the first attempt the get is         *)
(* attempted exactly once and the record has attempts = 1.                 *)
(***************************************************************************)
NonRetryableFailure(try) ==
  /\ ~try.error
  /\ try.statusCode >= 300
  /\ try.statusCode < 500
  /\ try.statusCode # 403

C5_GetResolvesNonRetryable ==
  (entry = "get" /\ Traced) =>
    \A i \in 1..NTries :
      NonRetryableFailure(Tries[i]) =>
        /\ i = NTries
        /\ pc = "done"
        /\ outcome.kind = "resolved"
        /\ outcome.settled = 1
        /\ outcome.response.statusCode = Tries[i].statusCode
        /\ Len(outcome.activity) = 1
        /\ outcome.activity[1].attempts = i
        /\ outcome.activity = activity

C5_Witness ==
  /\ entry = "get"
  /\ Traced
  /\ NTries = 1
  /\ Tries[1].statusCode = 404
  /\ outcome.kind = "resolved"
  /\ outcome.response.statusCode = 404
  /\ outcome.activity[1].attempts = 1

(***************************************************************************)
(* C6: transport errors are retried until maxAttempts is exhausted; when   *)
(* every one of the maxAttempts attempts of a page ended in a transport    *)
(* error with no response the fetch is rejected with that error, the error *)
(* carries the activity sequence, the page's Activity Record has attempts  *)
(* undefined and its delays are the maxAttempts - 1 entries                *)
(* {retry: retryDelay} recorded before the failure.                        *)
(***************************************************************************)
NoResponseError(try) == try.error /\ try.statusCode = 0

C6_AllTransportErrors ==
  (PageDelivered /\ \A i \in 1..NTries : NoResponseError(Tries[i])) =>
    /\ NTries = options.maxAttempts
    /\ pc = "done"
    /\ outcome.kind = "rejected"
    /\ outcome.error = NetworkError
    /\ outcome.settled = 1
    /\ ~HasResponse(outcome.response)
    /\ outcome.activity = activity
    /\ Len(outcome.activity) = trace.page
    /\ Rec.attempts = Undefined
    /\ Len(Rec.delays) = options.maxAttempts - 1
    /\ \A i \in 1..Len(Rec.delays) : Rec.delays[i] = RetryEntry

C6_Witness ==
  /\ PageDelivered
  /\ NTries = MaxAttemptsBound
  /\ \A i \in 1..NTries : NoResponseError(Tries[i])
  /\ outcome.kind = "rejected"
  /\ outcome.activity[trace.page].attempts = Undefined
  /\ Len(outcome.activity[trace.page].delays) = MaxAttemptsBound - 1
  /\ outcome.activity[trace.page].delays[1] = RetryEntry

(***************************************************************************)
(* C7 as claimed: a page whose final response carries a remaining quota    *)
(* below tokenLowerBound always has rateLimitDelay >= 2000 on its Activity *)
(* Record.                                                                 *)
(***************************************************************************)
LowOnQuota(try) ==
  /\ ~try.error
  /\ ParseIntOr0(try.remaining) < options.tokenLowerBound

C7_LowQuotaAlwaysRecordsDelay ==
  (PageReceived /\ LowOnQuota(LastTry) /\ LastTry.remaining # NaN) =>
    /\ Rec.rateLimitDelay # Undefined
    /\ Rec.rateLimitDelay >= MinSleep

(***************************************************************************)
(* C7 amended: in a session with delayOnThrottle enabled, a page whose     *)
(* final response is successful (status < 300) and carries a remaining     *)
(* quota below tokenLowerBound always has rateLimitDelay >= 2000 on its    *)
(* Activity Record, also when that response answered the first attempt     *)
(* (attempts = 1, no delays).                                              *)
(***************************************************************************)
C7_LowQuotaSuccessRecordsDelay ==
  ( /\ PageReceived
    /\ LowOnQuota(LastTry)
    /\ LastTry.statusCode < 300
    /\ options.delayOnThrottle ) =>
      /\ Rec.rateLimitDelay # Undefined
      /\ Rec.rateLimitDelay >= MinSleep
      /\ Rec.attempts = NTries
      /\ NTries = 1 => ~Rec.hasDelays

C7_Witness ==
  /\ PageReceived
  /\ NTries = 1
  /\ Tries[1].statusCode = 200
  /\ Tries[1].remaining = 20
  /\ Rec.attempts = 1
  /\ ~Rec.hasDelays
  /\ Rec.rateLimitDelay >= MinSleep

(***************************************************************************)
(* C8: when the governor has computed a proactive delay toSleep for a      *)
(* successful response, rateLimitDelay records it; in test mode the        *)
(* response is delivered at once, without a wait; in any other mode it is  *)
(* held while the suspension lasts and delivered only once toSleep has     *)
(* elapsed since it was received; in both modes it is delivered at most    *)
(* once.                                                                   *)
(***************************************************************************)
C8_ProactiveDelayDelivery ==
  (Traced /\ trace.toSleep # Undefined) =>
    /\ Rec.rateLimitDelay = trace.toSleep
    /\ trace.delivered <= 1
    /\ IF options.mode = "test"
       THEN /\ trace.delivered = 1
            /\ trace.deliveredAt = trace.receivedAt
       ELSE \/ /\ trace.delivered = 0
               /\ pc = "throttleWait"
               /\ outcome.kind = "pending"
               /\ Len(result) < trace.page
               /\ now < trace.receivedAt + trace.toSleep
            \/ /\ trace.delivered = 1
               /\ pc # "throttleWait"
               /\ trace.deliveredAt >= trace.receivedAt + trace.toSleep

C8_Witness ==
  /\ Traced
  /\ options.mode = "live"
  /\ trace.toSleep >= MinSleep
  /\ trace.delivered = 1
  /\ trace.deliveredAt = trace.receivedAt + trace.toSleep
  /\ outcome.kind = "resolved"

(***************************************************************************)
(* C9: in getAllResponses, when a page's final response has a status       *)
(* >= 300 other than 304, that response is appended as the last element of *)
(* the result, no further page is requested even if the response carries a *)
(* next link, and the call resolves with the responses gathered so far.    *)
(***************************************************************************)
C9_FailingResponseStopsPagination ==
  ( /\ entry = "getAll"
    /\ PageDelivered
    /\ ~LastTry.error
    /\ LastTry.statusCode >= 300
    /\ LastTry.statusCode # 304 ) =>
      /\ pc = "done"
      /\ Len(activity) = trace.page
      /\ Len(result) = trace.page
      /\ result[Len(result)].statusCode = LastTry.statusCode
      /\ result[Len(result)].page = trace.page
      /\ outcome.kind = "resolved"
      /\ outcome.settled = 1
      /\ outcome.result = result

C9_Witness ==
  /\ entry = "getAll"
  /\ PageDelivered
  /\ LastTry.statusCode = 404
  /\ pc = "done"
  /\ Len(result) = 1
  /\ result[1].statusCode = 404
  /\ result[1].link = "next"
  /\ Len(activity) = 1
  /\ outcome.kind = "resolved"

(***************************************************************************)
(* C10: in getAllResponses, when the fetch of any page, first or later,    *)
(* ends in a transport error, pagination stops at once, no further page is *)
(* requested, the call is rejected with that error, and the responses of   *)
(* the earlier pages are not delivered to the caller.                      *)
(***************************************************************************)
C10_TransportErrorAborts ==
  (entry = "getAll" /\ PageDelivered /\ LastTry.error) =>
    /\ pc = "done"
    /\ Len(activity) = trace.page
    /\ Len(result) = trace.page - 1
    /\ outcome.kind = "rejected"
    /\ outcome.error = NetworkError
    /\ outcome.settled = 1
    /\ outcome.result = <<>>

C10_Witness ==
  /\ entry = "getAll"
  /\ PageDelivered
  /\ LastTry.error
  /\ trace.page = 2
  /\ Len(result) = 1
  /\ result[1].statusCode = 200
  /\ outcome.kind = "rejected"
  /\ outcome.result = <<>>


(***************************************************************************)
(* A paginated fetch over the chain of pages the test suite's request hook *)
(* serves: one page longer than the chains of the other sessions, so that  *)
(* a page in the middle of the chain has a page before it and a page after *)
(* it.  Every response carries the quota headers and the link header       *)
(* createMultiPageResponse gives it: a next relation on a page that has a  *)
(* successor, and otherwise only relations other than next.  A page is     *)
(* answered 200, 304 or 500, or the attempt fails with                     *)
(* createErrorResponse's error and no response.                            *)
(***************************************************************************)
ChainPages == MaxPages + 1

ChainLinks(p) == IF p < ChainPages THEN {"next", "prev"} ELSE {"prev"}

ChainOutcomes(p, t) ==
  {[err |-> NetworkError, response |-> NoResponse]}
  \cup {[err |-> NoError,
         response |-> MakeResponse(code, [remaining |-> 4000, reset |-> 0],
                                   l, p)] :
          code \in {200, 304, 500}, l \in ChainLinks(p)}

\* The options the test suite passes: short delays, test mode.
ChainOptions ==
  [maxAttempts : 1..MaxAttemptsBound, retryDelay : {10},
   forbiddenDelay : {15}, mode : {"test"}]

InitChain ==
  /\ \E g \in ChainOptions :
       /\ options = RequestorAction(g)
       /\ input = ConstructorArguments(g)
  /\ entry = "none"
  /\ activity = <<>>
  /\ result = <<>>
  /\ pc = "idle"
  /\ cur = 0
  /\ attempts = 0
  /\ attemptsLeft = 0
  /\ timer = 0
  /\ pending = NoResponse
  /\ now = 10000
  /\ outcome = NoOutcome
  /\ trace = NewTrace(0)
  /\ request = <<>>
  /\ output = NoOutput
  /\ call = NoCall
  /\ sessions = <<>>

\* The hook answers one attempt on the page being fetched.
ChainRespond ==
  /\ pc = "sending"
  /\ UNCHANGED <<aside, call>>
  /\ \E o \in ChainOutcomes(cur, now) : Answer(o)

\* getAllResponses: the session's own steps.
NextChain == getAll \/ ChainRespond \/ RetryTimer

SpecChain == InitChain /\ [][NextChain]_vars

\* The run has completed with the responses it gathered.
Gathered == entry = "getAll" /\ pc = "done" /\ outcome.kind = "resolved"

(***************************************************************************)
(* C11: in a paginated fetch a 304 page is appended to the result like a   *)
(* 200 page and does not stop pagination: when it carries a next link the  *)
(* next page is requested, when it does not the call completes with the    *)
(* gathered responses; the responses stay in fetch order, one Activity     *)
(* Record each.  In the responses of a completed run a 304 page stands at  *)
(* the position of its page, and one that carries a next link is followed  *)
(* by the response of the next page.                                       *)
(***************************************************************************)
C11_NotModifiedPageContinues ==
  /\ ( /\ entry = "getAll"
       /\ PageDelivered
       /\ ~LastTry.error
       /\ LastTry.statusCode = 304 ) =>
         /\ Len(result) = trace.page
         /\ result[trace.page].statusCode = 304
         /\ \A i \in 1..Len(result) : result[i].page = i
         /\ HasNext(LastTry.link) =>
              /\ pc = "sending"
              /\ cur = trace.page + 1
              /\ Len(activity) = trace.page + 1
              /\ outcome.kind = "pending"
         /\ ~HasNext(LastTry.link) =>
              /\ pc = "done"
              /\ outcome.kind = "resolved"
              /\ outcome.result = result
              /\ Len(outcome.activity) = Len(result)
  /\ Gathered =>
       /\ Len(outcome.activity) = Len(outcome.result)
       /\ \A i \in 1..Len(outcome.result) :
            outcome.result[i].statusCode = 304 =>
              /\ outcome.result[i].page = i
              /\ HasNext(outcome.result[i].link) =>
                   /\ i < Len(outcome.result)
                   /\ outcome.result[i + 1].page = i + 1

\* The chain 200, 304, 200 of the test suite, the first two pages carrying a
\* next link: the completed run holds the three responses in that order and
\* three Activity Records, each showing one attempt.
C11_Witness ==
  /\ Gathered
  /\ Len(outcome.result) = 3
  /\ outcome.result[1].statusCode = 200
  /\ outcome.result[2].statusCode = 304
  /\ outcome.result[3].statusCode = 200
  /\ HasNext(outcome.result[2].link)
  /\ \A i \in 1..3 : outcome.result[i].page = i
  /\ Len(outcome.activity) = 3
  /\ \A i \in 1..3 : outcome.activity[i].attempts = 1

(***************************************************************************)
(* Vocabulary of pagination: what the page last answered led to.           *)
(***************************************************************************)
\* The final attempt of the traced page brought a response.
PageAnswered == PageDelivered /\ ~LastTry.error

\* The link header of that response has a next relation.
CarriesNext == LastTry.link = "next"

\* That response has a status >= 300 other than 304.
FailingStatus == LastTry.statusCode >= 300 /\ LastTry.statusCode # 304

\* Pagination stopped after the traced page / went on to the next page.
StoppedAfterPage ==
  /\ pc = "done"
  /\ Len(activity) = trace.page
  /\ outcome.kind # "pending"
WentOnAfterPage ==
  /\ pc = "sending"
  /\ cur = trace.page + 1
  /\ Len(activity) = trace.page + 1
  /\ outcome.kind = "pending"

(***************************************************************************)
(* C12 as claimed: a pagination run stops after a page response exactly    *)
(* when that response lacks a next relation; it never stops after a        *)
(* response that carries one.                                              *)
(***************************************************************************)
C12_StopsIffNoNext ==
  (entry = "getAll" /\ PageAnswered) =>
    /\ ~CarriesNext => StoppedAfterPage
    /\ CarriesNext => WentOnAfterPage

(***************************************************************************)
(* C12 amended: a pagination run stops after a page response exactly when  *)
(* the response lacks a next relation or has a status >= 300 other than    *)
(* 304; after a 200 or 304 response that carries a next relation the next  *)
(* page is requested.  A page that ends with a transport error ends the    *)
(* run as well.                                                            *)
(***************************************************************************)
C12_StopsIffNoNextOrFailing ==
  (entry = "getAll" /\ PageDelivered) =>
    /\ LastTry.error => StoppedAfterPage
    /\ (~LastTry.error /\ (~CarriesNext \/ FailingStatus)) =>
         StoppedAfterPage
    /\ (~LastTry.error /\ CarriesNext /\ ~FailingStatus) =>
         WentOnAfterPage

\* Both cases happen: a 200 page with a next link was followed by a second
\* page, whose response without a next link completed the call.
C12_Witness ==
  /\ entry = "getAll"
  /\ PageAnswered
  /\ trace.page = 2
  /\ result[1].statusCode = 200
  /\ result[1].link = "next"
  /\ LastTry.statusCode = 200
  /\ ~CarriesNext
  /\ StoppedAfterPage

(***************************************************************************)
(* C13: when getAllResponses completes, the result holds exactly one       *)
(* response per fetched page, in fetch order, and the activity sequence    *)
(* holds exactly one record per fetched page in the same order: record i   *)
(* carries the attempt count of page i's response and one delay entry per  *)
(* retry of page i.  A two-page chain without failures yields two records, *)
(* each with attempts = 1.                                                 *)
(***************************************************************************)
C13_OneResponseAndRecordPerPage ==
  (entry = "getAll" /\ outcome.kind = "resolved") =>
    /\ Len(outcome.result) = trace.page
    /\ Len(outcome.activity) = trace.page
    /\ \A i \in 1..Len(outcome.result) :
         /\ outcome.result[i].page = i
         /\ outcome.activity[i].attempts = outcome.result[i].attempts
         /\ Len(outcome.activity[i].delays) = outcome.result[i].attempts - 1
    /\ ( /\ Len(outcome.result) = 2
         /\ \A i \in 1..2 : outcome.result[i].attempts = 1 ) =>
           \A i \in 1..2 :
             /\ outcome.activity[i].attempts = 1
             /\ ~outcome.activity[i].hasDelays

\* A two-page run whose first page took two attempts and whose second page
\* took one: the records carry 2 and 1, in page order.
C13_Witness ==
  /\ entry = "getAll"
  /\ outcome.kind = "resolved"
  /\ Len(outcome.result) = 2
  /\ outcome.result[1].statusCode = 200
  /\ outcome.result[2].statusCode = 200
  /\ outcome.activity[1].attempts = 2
  /\ Len(outcome.activity[1].delays) = 1
  /\ outcome.activity[2].attempts = 1
  /\ ~outcome.activity[2].hasDelays

(***************************************************************************)
(* C14: within one session pages are fetched strictly sequentially.  The   *)
(* session never holds more than one record beyond the page last answered, *)
(* and the transport request under way is the latest page's.  When the     *)
(* request for page N + 1 has been issued, page N has reached its terminal *)
(* outcome exactly once: its last attempt was not retried and, outside     *)
(* test mode, any proactive rate-limit wait computed for it has elapsed.   *)
(* While a page waits on a retry or proactive-delay timer it is the latest *)
(* page and no other request is under way.                                 *)
(***************************************************************************)
C14_PagesStrictlySequential ==
  /\ Len(activity) <= trace.page + 1
  /\ pc # "idle" => cur = Len(activity)
  /\ (Traced /\ Len(activity) = trace.page + 1) =>
       /\ pc = "sending"
       /\ trace.delivered = 1
       /\ ~LastTry.error
       /\ ~LastTry.retried
       /\ NTries = activity[trace.page].attempts
       /\ (options.mode # "test" /\ trace.toSleep # Undefined) =>
            /\ trace.deliveredAt >= trace.receivedAt + trace.toSleep
            /\ now >= trace.receivedAt + trace.toSleep
  /\ pc \in {"retryWait", "throttleWait"} =>
       /\ trace.page = cur
       /\ trace.page = Len(activity)
       /\ trace.delivered = 0

\* The request for page 2 is under way after page 1 was retried once and
\* then held back by a proactive rate-limit wait.
C14_Witness ==
  /\ entry = "getAll"
  /\ trace.page = 1
  /\ Len(activity) = 2
  /\ pc = "sending"
  /\ NTries = 2
  /\ options.mode # "test"
  /\ trace.toSleep # Undefined
  /\ now = trace.receivedAt + trace.toSleep

(***************************************************************************)
(* The arguments explored for mergeOptions.                                *)
(***************************************************************************)
HeaderMaps ==
  {[h \in H |-> IF h = "User-Agent" THEN "test agent" ELSE "test auth"] :
     H \in SUBSET {"User-Agent", "authorization"}}

\* Options without a header map: any of retryDelay, maxAttempts and a
\* property the defaults do not know.
PlainOptions ==
  {[k \in K |-> IF k = "retryDelay" THEN 10
                ELSE IF k = "maxAttempts" THEN n
                ELSE "test value"] :
     K \in SUBSET {"retryDelay", "maxAttempts", "testProperty"},
     n \in 1..MaxAttemptsBound}

GivenArguments ==
  {Null} \cup PlainOptions
  \cup {Extend(o, [headers |-> h]) : o \in PlainOptions, h \in HeaderMaps}

DefaultArguments ==
  {Null, _defaultOptions, [retryDelay |-> 500],
   [retryDelay |-> 500, headers |-> [h \in {"authorization"} |-> "foo"]]}

(***************************************************************************)
(* The static helpers of GHRequestor studied on their own: the arguments   *)
(* are drawn from bounded sets and the helper is applied to them.          *)
(***************************************************************************)
\* The arguments of one call of flattenResponses: up to MaxResponses page
\* responses, their activity, and the supplier.
FlattenArguments(arguments) ==
  \E k \in 0..MaxResponses :
    \E pages \in [1..k -> PageResponses], v \in 1..2, s \in Suppliers :
      arguments = [op |-> "flattenResponses",
                   responses |-> ResponseArray(pages, v), supplier |-> s]

\* The arguments of one call of mergeOptions.
MergeArguments(arguments) ==
  \E d \in DefaultArguments, g \in GivenArguments :
    arguments = [op |-> "mergeOptions", defaultOptions |-> d,
                 givenOptions |-> g]

InitStatic ==
  /\ options = _defaultOptions
  /\ entry = "none"
  /\ activity = <<>>
  /\ result = <<>>
  /\ pc = "idle"
  /\ cur = 0
  /\ attempts = 0
  /\ attemptsLeft = 0
  /\ timer = 0
  /\ pending = NoResponse
  /\ now = 10000
  /\ outcome = NoOutcome
  /\ trace = NewTrace(0)
  /\ request = <<>>
  /\ FlattenArguments(input) \/ MergeArguments(input)
  /\ output = NoOutput
  /\ call = NoCall
  /\ sessions = <<>>

\* GHRequestor.flattenResponses(responses, supplier)
CallFlattenResponses ==
  /\ input.op = "flattenResponses"
  /\ output.kind = "none"
  /\ output' = flattenResponses(input.responses, input.supplier)
  /\ UNCHANGED <<session, input, sessions>>

\* GHRequestor.mergeOptions(defaultOptions, givenOptions)
CallMergeOptions ==
  /\ input.op = "mergeOptions"
  /\ output.kind = "none"
  /\ output' = [kind |-> "returned",
                value |-> mergeOptions(input.defaultOptions,
                                       input.givenOptions)]
  /\ UNCHANGED <<session, input, sessions>>

NextStatic == CallFlattenResponses \/ CallMergeOptions

SpecStatic == InitStatic /\ [][NextStatic]_vars

(***************************************************************************)
(* Vocabulary of flattening: the call made, the pages handed in and what   *)
(* each page is expected to contribute.                                    *)
(***************************************************************************)
Flattened == input.op = "flattenResponses" /\ output.kind # "none"
Pages == input.responses.pages

\* The items expected of page i: its body for a 200 page (an object counts
\* as one item), the supplier's answer to its URL for a 304 page.
Expected(i) ==
  LET content == IF Pages[i].statusCode = 200 THEN Pages[i].body
                 ELSE input.supplier.content[Pages[i].url]
  IN IF content.isArray THEN content.items ELSE <<content.value>>

\* The number of items expected of the first n pages together.
RECURSIVE ExpectedBefore(_)
ExpectedBefore(n) ==
  IF n = 0 THEN 0 ELSE ExpectedBefore(n - 1) + Len(Expected(n))

\* The flat list holds, for every page in order, exactly the page's items.
PagesInPlace ==
  /\ Len(output.value) = ExpectedBefore(Len(Pages))
  /\ \A i \in 1..Len(Pages) :
       \A k \in 1..Len(Expected(i)) :
         output.value[ExpectedBefore(i - 1) + k] = Expected(i)[k]

(***************************************************************************)
(* C15: flattenResponses over page responses that all have status 200      *)
(* returns the concatenation of the page bodies, page order and the order  *)
(* of the items within a page preserved; an empty page contributes no      *)
(* item, and the length of the flat list is the sum of the page lengths.   *)
(***************************************************************************)
C15_FlattenConcatenatesBodies ==
  (Flattened /\ \A i \in 1..Len(Pages) : Pages[i].statusCode = 200) =>
    /\ output.kind = "resolved"
    /\ PagesInPlace
    /\ (\A i \in 1..Len(Pages) : Pages[i].body = ArrayBody(<<>>)) =>
         output.value = <<>>

\* Two pages of two items and one item were flattened into three items.
C15_Witness ==
  /\ Flattened
  /\ Len(Pages) = 2
  /\ Pages[1] = PageResponse(200, 1, ArrayBody(<<11, 12>>))
  /\ Pages[2] = PageResponse(200, 2, ArrayBody(<<21>>))
  /\ output.kind = "resolved"
  /\ output.value = <<11, 12, 21>>

\* Page i cannot be flattened: its status is neither 200 nor 304, or it is a
\* 304 and there is no supplier.
BadStatus(i) == Pages[i].statusCode \notin {200, 304}
Unflattenable(i) ==
  \/ BadStatus(i)
  \/ (Pages[i].statusCode = 304 /\ ~input.supplier.present)

\* Page i is the first page of the sequence that cannot be flattened.
FirstUnflattenable(i) ==
  /\ Unflattenable(i)
  /\ \A j \in 1..(i - 1) : ~Unflattenable(j)

(***************************************************************************)
(* C16 as claimed: flattenResponses over a sequence containing a 304       *)
(* response.  Without a supplier the whole operation fails with the        *)
(* missing-supplier (configuration) error; with a supplier the list it     *)
(* returns holds, in the position of every 304 page, the items the         *)
(* supplier returns for the page's URL, after all items of earlier pages   *)
(* and before all items of later pages.                                    *)
(***************************************************************************)
C16_NotModifiedFailsForSupplier ==
  (Flattened /\ \E i \in 1..Len(Pages) : Pages[i].statusCode = 304) =>
    /\ ~input.supplier.present =>
         /\ output.kind = "rejected"
         /\ output.error = NoSupplierError
    /\ (input.supplier.present /\ output.kind = "resolved") => PagesInPlace

(***************************************************************************)
(* C16 amended: flattenResponses over a sequence containing a 304          *)
(* response.  Without a supplier the whole operation fails and yields no   *)
(* items; the error is the missing-supplier error unless a response with a *)
(* status other than 200 and 304 comes before the first 304, in which case *)
(* it is the status error of the first such response.  With a supplier and *)
(* no response of another status, every 304 page is resolved by asking the *)
(* supplier with the page's URL, and the items it returns stand exactly in *)
(* the page's position: after all items of earlier pages and before all    *)
(* items of later pages; with a supplier and a response of another status  *)
(* the operation fails with the status error of the first such response.   *)
(***************************************************************************)
C16_NotModifiedNeedsSupplier ==
  (Flattened /\ \E i \in 1..Len(Pages) : Pages[i].statusCode = 304) =>
    /\ ~input.supplier.present =>
         /\ output.kind = "rejected"
         /\ output.value = <<>>
         /\ \E i \in 1..Len(Pages) :
              /\ FirstUnflattenable(i)
              /\ output.error = IF Pages[i].statusCode = 304
                                THEN NoSupplierError
                                ELSE StatusCodeError(Pages[i].statusCode)
         /\ (\A i \in 1..Len(Pages) : ~BadStatus(i)) =>
              output.error = NoSupplierError
    /\ (input.supplier.present /\ \A i \in 1..Len(Pages) : ~BadStatus(i)) =>
         /\ output.kind = "resolved"
         /\ PagesInPlace
    /\ (input.supplier.present /\ \E i \in 1..Len(Pages) : BadStatus(i)) =>
         /\ output.kind = "rejected"
         /\ output.value = <<>>
         /\ \E i \in 1..Len(Pages) :
              /\ FirstUnflattenable(i)
              /\ output.error = StatusCodeError(Pages[i].statusCode)

\* A 304 page for URL 2 followed by a 200 page: the supplier's two items for
\* URL 2 come first, then the item of the second page.
C16_Witness ==
  /\ Flattened
  /\ input.supplier = Cache(0)
  /\ Len(Pages) = 2
  /\ Pages[1].statusCode = 304
  /\ Pages[1].url = 2
  /\ Pages[2] = PageResponse(200, 1, ArrayBody(<<11>>))
  /\ output.kind = "resolved"
  /\ output.value = <<121, 122, 11>>

(***************************************************************************)
(* C17 as claimed: whenever at least one response has a status other than  *)
(* 200 or 304, flattenResponses fails as a whole, yields no items, and the *)
(* error identifies the status code of such a response, wherever it sits   *)
(* in the sequence.                                                        *)
(***************************************************************************)
C17_BadStatusErrorNamesStatus ==
  (Flattened /\ \E i \in 1..Len(Pages) : BadStatus(i)) =>
    /\ output.kind = "rejected"
    /\ output.value = <<>>
    /\ \E i \in 1..Len(Pages) :
         /\ BadStatus(i)
         /\ output.error = StatusCodeError(Pages[i].statusCode)

(***************************************************************************)
(* C17 amended: whenever at least one response has a status other than 200 *)
(* or 304, flattenResponses fails as a whole and yields no items; the      *)
(* error is that of the first response in the sequence that cannot be      *)
(* flattened: it identifies that response's status code, unless that       *)
(* response is a 304 met without a supplier, in which case it is the       *)
(* missing-supplier error.                                                 *)
(***************************************************************************)
C17_BadStatusFailsWithFirstError ==
  (Flattened /\ \E i \in 1..Len(Pages) : BadStatus(i)) =>
    /\ output.kind = "rejected"
    /\ output.value = <<>>
    /\ \E i \in 1..Len(Pages) :
         /\ Unflattenable(i)
         /\ \A j \in 1..(i - 1) : ~Unflattenable(j)
         /\ BadStatus(i) =>
              output.error = StatusCodeError(Pages[i].statusCode)
         /\ ~BadStatus(i) => output.error = NoSupplierError

\* A 200 page followed by a 500 page: no items, the error names status 500.
C17_Witness ==
  /\ Flattened
  /\ Len(Pages) = 2
  /\ Pages[1] = PageResponse(200, 1, ArrayBody(<<11, 12>>))
  /\ Pages[2].statusCode = 500
  /\ output.kind = "rejected"
  /\ output.value = <<>>
  /\ output.error = StatusCodeError(500)

(***************************************************************************)
(* C18: the flat list flattenResponses returns carries as its activity     *)
(* exactly the activity sequence of the page-response sequence it was      *)
(* computed from: same length, same order, same records.                   *)
(***************************************************************************)
C18_FlatListCarriesActivity ==
  (Flattened /\ output.kind = "resolved") =>
    output.activity = input.responses.activity

\* Two pages whose records show two and three attempts were flattened.
C18_Witness ==
  /\ Flattened
  /\ output.kind = "resolved"
  /\ Len(Pages) = 2
  /\ Len(output.activity) = 2
  /\ output.activity[1].attempts = 2
  /\ output.activity[2].attempts = 3
  /\ output.activity = input.responses.activity

(***************************************************************************)
(* Sessions configured with an etags sequence.                             *)
(***************************************************************************)
\* options.etags as the caller gives it: an entry for the first page only,
\* a null entry followed by an entry for the second page, an entry for each
\* of the first two pages.
EtagChoices == {<<"etag1">>, <<NoEtag, "etag2">>, <<"etag1", "etag2">>}

EtagOptions ==
  [maxAttempts : 1..MaxAttemptsBound, etags : EtagChoices,
   forbiddenDelay : {0}]

InitEtags ==
  /\ \E g \in EtagOptions :
       /\ options = RequestorAction(g)
       /\ input = ConstructorArguments(g)
  /\ entry = "none"
  /\ activity = <<>>
  /\ result = <<>>
  /\ pc = "idle"
  /\ cur = 0
  /\ attempts = 0
  /\ attemptsLeft = 0
  /\ timer = 0
  /\ pending = NoResponse
  /\ now = 10000
  /\ outcome = NoOutcome
  /\ trace = NewTrace(0)
  /\ request = <<>>
  /\ output = NoOutput
  /\ call = NoCall
  /\ sessions = <<>>

SpecEtags == InitEtags /\ [][Next]_vars

\* The ETag configured for the k-th page fetch of the session, counted from
\* one: the entry at 0-based index k - 1 of options.etags, if there is one.
ConfiguredEtag(k) ==
  IF k <= Len(options.etags) THEN options.etags[k] ELSE NoEtag

(***************************************************************************)
(* C19: when the configuration carries an etags sequence, every request of *)
(* a page, retries included, carries If-None-Match equal to the entry of   *)
(* etags at the page's 0-based index when that entry exists and is not     *)
(* null, and no If-None-Match otherwise.  The header is put on a copy of   *)
(* the options: the session's own headers never hold it, the other headers *)
(* are sent unchanged, and so an ETag is never sent with another page.     *)
(***************************************************************************)
C19_EtagPerPage ==
  /\ IfNoneMatch(options.headers) = NoEtag
  /\ pc # "idle" =>
       /\ IfNoneMatch(request) = ConfiguredEtag(cur)
       /\ request["User-Agent"] = options.headers["User-Agent"]
  /\ Traced =>
       \A i \in 1..NTries : Tries[i].ifNoneMatch = ConfiguredEtag(trace.page)

\* The first page was attempted twice, both times with etag1; the request of
\* the second page, for which etags has no entry, carries no If-None-Match.
C19_Witness ==
  /\ options.etags = <<"etag1">>
  /\ trace.page = 1
  /\ NTries = 2
  /\ Tries[1].ifNoneMatch = "etag1"
  /\ Tries[2].ifNoneMatch = "etag1"
  /\ pc = "sending"
  /\ cur = 2
  /\ IfNoneMatch(request) = NoEtag

(***************************************************************************)
(* Vocabulary of option merging.                                           *)
(***************************************************************************)
Merged == input.op = "mergeOptions" /\ output.kind = "returned"

\* The header maps of the two arguments, empty when an argument has none.
DefaultHeaders ==
  IF "headers" \in DOMAIN input.defaultOptions
  THEN input.defaultOptions.headers ELSE <<>>
GivenHeaders ==
  IF "headers" \in DOMAIN input.givenOptions
  THEN input.givenOptions.headers ELSE <<>>

(***************************************************************************)
(* C20: mergeOptions over two option sets.  Every non-header option given  *)
(* by the caller overrides the default of the same name, options only in   *)
(* the defaults are kept, nothing else is added, and the resulting header  *)
(* map has every key of both header maps, with the caller's value on the   *)
(* keys the caller gave and the default's value on the others.  When one   *)
(* of the two option sets is missing the other is returned as it is.       *)
(***************************************************************************)
C20_MergeOptions ==
  Merged =>
    /\ IsNull(input.givenOptions) => output.value = input.defaultOptions
    /\ (~IsNull(input.givenOptions) /\ IsNull(input.defaultOptions)) =>
         output.value = input.givenOptions
    /\ (~IsNull(input.givenOptions) /\ ~IsNull(input.defaultOptions)) =>
         /\ DOMAIN output.value =
              DOMAIN input.defaultOptions \cup DOMAIN input.givenOptions
                \cup {"headers"}
         /\ \A k \in DOMAIN input.givenOptions \ {"headers"} :
              output.value[k] = input.givenOptions[k]
         /\ \A k \in DOMAIN input.defaultOptions
                       \ (DOMAIN input.givenOptions \cup {"headers"}) :
              output.value[k] = input.defaultOptions[k]
         /\ DOMAIN output.value.headers =
              DOMAIN DefaultHeaders \cup DOMAIN GivenHeaders
         /\ \A h \in DOMAIN GivenHeaders :
              output.value.headers[h] = GivenHeaders[h]
         /\ \A h \in DOMAIN DefaultHeaders \ DOMAIN GivenHeaders :
              output.value.headers[h] = DefaultHeaders[h]

\* The built-in defaults merged with a caller's maxAttempts and authorization
\* header: the caller's values are there, the default retryDelay and the
\* default User-Agent header are still there.
C20_Witness ==
  /\ Merged
  /\ input.defaultOptions = _defaultOptions
  /\ DOMAIN input.givenOptions = {"maxAttempts", "headers"}
  /\ input.givenOptions.maxAttempts = 1
  /\ DOMAIN input.givenOptions.headers = {"authorization"}
  /\ output.value.maxAttempts = 1
  /\ output.value.retryDelay = DefaultRetryDelay
  /\ output.value.headers["authorization"] = "test auth"
  /\ output.value.headers["User-Agent"] = "ghrequestor"

(***************************************************************************)
(* Sessions whose caller passes its own retryStrategy and delayStrategy.   *)
(***************************************************************************)
StrategyOptions ==
  [maxAttempts : 1..MaxAttemptsBound,
   retryStrategy : {"HTTPOrNetworkError"},
   delayStrategy : {"ConstantDelay"}]

InitStrategies ==
  /\ \E g \in StrategyOptions :
       /\ options = RequestorAction(g)
       /\ input = ConstructorArguments(g)
  /\ entry = "none"
  /\ activity = <<>>
  /\ result = <<>>
  /\ pc = "idle"
  /\ cur = 0
  /\ attempts = 0
  /\ attemptsLeft = 0
  /\ timer = 0
  /\ pending = NoResponse
  /\ now = 10000
  /\ outcome = NoOutcome
  /\ trace = NewTrace(0)
  /\ request = <<>>
  /\ output = NoOutput
  /\ call = NoCall
  /\ sessions = <<>>

SpecStrategies == InitStrategies /\ [][Next]_vars

(***************************************************************************)
(* C21 as claimed: a retryStrategy or delayStrategy passed by the caller   *)
(* in the options is the one that decides for that call.  With the         *)
(* HTTPOrNetworkError strategy an attempt is approved for a retry exactly  *)
(* when it ended in an error or a 5xx status, and with the caller's delay  *)
(* strategy every retry waits the caller's delay.                          *)
(***************************************************************************)
C21_CallerStrategiesDecide ==
  ( /\ input.givenOptions.retryStrategy = "HTTPOrNetworkError"
    /\ input.givenOptions.delayStrategy = "ConstantDelay"
    /\ Traced ) =>
      /\ \A i \in 1..NTries :
           Tries[i].approved = (Tries[i].error \/ Tries[i].statusCode >= 500)
      /\ pc = "retryWait" => timer = now + CallerDelay

(***************************************************************************)
(* GHRequestor.getAll over a run of the session: what the flattened        *)
(* promise is settled with.                                                *)
(***************************************************************************)
\* The position of the first page response whose status is not 200, or one
\* past the end when every page is a 200.
FirstNon200(pages) ==
  IF \E i \in 1..Len(pages) : pages[i].statusCode # 200
  THEN CHOOSE i \in 1..Len(pages) :
         /\ pages[i].statusCode # 200
         /\ \A j \in 1..(i - 1) : pages[j].statusCode = 200
  ELSE Len(pages) + 1

\* The elements of the first k pages, in page order.
RECURSIVE Collected(_, _)
Collected(pages, k) ==
  IF k = 0 THEN <<>> ELSE Collected(pages, k - 1) \o pages[k].body.items

\* getAll's promise is settled after getAllResponses gathered its pages.
GetAllFlattened ==
  entry = "getAll" /\ output.kind # "none" /\ outcome.kind = "resolved"

(***************************************************************************)
(* C22 as claimed: getAll returns the collected elements of all pages, and *)
(* when pagination meets a non-200 response the call still succeeds, with  *)
(* the elements of the pages fetched before the first non-200 response.    *)
(***************************************************************************)
C22_TruncatedAtFirstNon200 ==
  GetAllFlattened =>
    /\ output.kind = "resolved"
    /\ output.value =
         Collected(outcome.result, FirstNon200(outcome.result) - 1)

(***************************************************************************)
(* Sessions called with or without a completion callback.                  *)
(***************************************************************************)
\* A session right after construction: _initialize has not run, nothing is
\* in flight and no promise exists.
NotCalled ==
  /\ entry = "none"
  /\ activity = <<>>
  /\ result = <<>>
  /\ pc = "idle"
  /\ cur = 0
  /\ attempts = 0
  /\ attemptsLeft = 0
  /\ timer = 0
  /\ pending = NoResponse
  /\ now = 10000
  /\ outcome = NoOutcome
  /\ trace = NewTrace(0)
  /\ request = <<>>
  /\ output = NoOutput

CallbackOptions == [maxAttempts : 1..MaxAttemptsBound]

InitCallback ==
  /\ \E g \in CallbackOptions :
       /\ options = RequestorAction(g)
       /\ input = ConstructorArguments(g)
  /\ NotCalled
  /\ \E callback \in BOOLEAN : call = [NoCall EXCEPT !.callback = callback]
  /\ sessions = <<>>

SpecCallback == InitCallback /\ [][Next]_vars

(***************************************************************************)
(* C23 as claimed: when a completion callback is supplied to               *)
(* getAllResponses, the call returns null instead of a promise, and once   *)
(* the run is over the callback has been invoked exactly once, with the    *)
(* error or with the collected result.                                     *)
(***************************************************************************)
C23_CallbackReturnsNull ==
  (call.callback /\ entry = "getAll") =>
    /\ call.returned = "null"
    /\ pc = "done" => /\ outcome.settled = 1
                      /\ outcome.kind \in {"resolved", "rejected"}
    /\ pc # "done" => outcome.settled = 0

(***************************************************************************)
(* A pre-configured requestor (RequestorTemplate) whose getAll is called   *)
(* twice, the second call once the first has succeeded.                    *)
(***************************************************************************)
TemplateOptions == [maxAttempts : 1..MaxAttemptsBound, forbiddenDelay : {0}]

\* The instant at which the caller issues the second call, later than any
\* instant the first run reaches.
SecondCallAt == 10000000

\* What the caller saw of a settled run: how many pages and how many items.
Seen(pages, flat) ==
  [pages |-> Len(pages),
   items |-> IF flat.kind = "resolved" THEN Len(flat.value) ELSE 0]

InitTwice ==
  /\ \E g \in TemplateOptions :
       /\ options = RequestorAction(g)
       /\ input = ConstructorArguments(g)
  /\ NotCalled
  /\ call = NoCall
  /\ sessions = <<>>

\* instance.getAll(target) once more: the template merges its defaults and
\* GHRequestor.getAll constructs a new RequestorAction from them, which
\* starts its own run.
SecondCall ==
  /\ entry = "getAll"
  /\ pc = "done"
  /\ call.run = 1
  /\ output.kind = "resolved"
  /\ options' = OptionsAfterGet(RequestorAction(input.givenOptions), 1)
  /\ call' = [call EXCEPT !.run = @ + 1,
                          !.returned = GetAllReturns(call.callback)]
  /\ sessions' = Append(sessions, Seen(outcome.result, output))
  /\ activity' = Append(_initialize(activity), NewActivity)
  /\ result' = _initialize(result)
  /\ request' = RequestOptions(options', 1).headers
  /\ cur' = 1
  /\ attempts' = 1
  /\ attemptsLeft' = options'.maxAttempts - 1
  /\ pc' = "sending"
  /\ now' = SecondCallAt
  /\ timer' = 0
  /\ pending' = NoResponse
  /\ outcome' = NoOutcome
  /\ trace' = NewTrace(0)
  /\ output' = NoOutput
  /\ UNCHANGED <<entry, input>>

NextTwice == Next \/ SecondCall

SpecTwice == InitTwice /\ [][NextTwice]_vars

\* The items served to the second run.
OfSecondRun(item) == item > 100

\* The second run has gathered its pages.
SecondRunGathered == call.run = 2 /\ pc = "done" /\ outcome.kind = "resolved"

(***************************************************************************)
(* C24: when getAll is called a second time on the same pre-configured     *)
(* requestor after the first call has succeeded, the second result holds   *)
(* the pages of the second run only, in order, and its activity holds one  *)
(* record per page of the second run; every item of the flattened result   *)
(* is an item served to the second run.                                    *)
(***************************************************************************)
C24_SecondRunOnly ==
  SecondRunGathered =>
    /\ Len(outcome.result) = cur
    /\ \A i \in 1..Len(outcome.result) :
         /\ outcome.result[i].page = i
         /\ \A k \in 1..Len(outcome.result[i].body.items) :
              OfSecondRun(outcome.result[i].body.items[k])
    /\ Len(outcome.activity) = cur
    /\ Len(activity) = cur
    /\ output.kind = "resolved" =>
         /\ output.value = Collected(outcome.result, Len(outcome.result))
         /\ \A k \in 1..Len(output.value) : OfSecondRun(output.value[k])
         /\ Len(output.activity) = cur

\* Both runs fetched two pages and returned items, and the second result is
\* the three items of the second run.
C24_Witness ==
  /\ SecondRunGathered
  /\ sessions[1].pages = 2
  /\ sessions[1].items = 3
  /\ cur = 2
  /\ output.kind = "resolved"
  /\ Len(output.value) = 3

(***************************************************************************)
(* Two get calls on the same pre-configured requestor, the second issued   *)
(* before the first has completed.  Each call constructs its own           *)
(* RequestorAction; the transport completes their attempts and fires       *)
(* their retry timers in any order.  Proactive throttling is off.          *)
(***************************************************************************)
OverlapOptions ==
  [maxAttempts : 1..MaxAttemptsBound, delayOnThrottle : {FALSE}]

\* What the transport answers to one attempt of either call.
OverlapOutcomes ==
  {[err |-> NetworkError, response |-> NoResponse]}
  \cup {[err |-> NoError,
         response |-> MakeResponse(code, [remaining |-> 4000, reset |-> NaN],
                                   "", 1)] : code \in {200, 403, 404, 500}}

\* new RequestorAction(options).get(target): _initialize, then _get pushes
\* the call's Activity Record and the transport makes the first attempt.
NewSession ==
  [pc |-> "sending",
   activity |-> Append(_initialize(<<>>), NewActivity),
   attempts |-> 1,
   attemptsLeft |-> options.maxAttempts - 1,
   tries |-> <<>>,
   outcome |-> NoOutcome]

InitOverlap ==
  /\ \E g \in OverlapOptions :
       /\ options = RequestorAction(g)
       /\ input = ConstructorArguments(g)
  /\ NotCalled
  /\ call = NoCall
  /\ sessions = <<>>

\* instance.get(target), while no earlier call has completed.
OverlapGet ==
  /\ Len(sessions) < 2
  /\ \A s \in 1..Len(sessions) : sessions[s].pc # "done"
  /\ sessions' = Append(sessions, NewSession)
  /\ UNCHANGED <<session, input, output>>

\* One attempt of call s completes.
OverlapRespond(s) ==
  /\ s \in 1..Len(sessions)
  /\ sessions[s].pc = "sending"
  /\ \E o \in OverlapOutcomes :
       LET me == sessions[s]
           this == BoundSession(s)
           response == IF HasResponse(o.response)
                       THEN [o.response EXCEPT !.attempts = me.attempts]
                       ELSE o.response
           rs == _retryStrategy(o.err, response)
           mustRetry == MustRetry(rs.retry, me.attemptsLeft)
           try == [error |-> o.err # NoError,
                   statusCode |-> response.statusCode,
                   approved |-> rs.retry, retried |-> mustRetry]
       IN IF mustRetry
          THEN LET ds == _retryDelayStrategy(sessions[this].activity, o.err,
                                             rs.response)
               IN sessions' = [sessions EXCEPT
                                 ![this].activity = ds.activity,
                                 ![s].pc = "retryWait",
                                 ![s].tries = Append(@, try)]
          ELSE LET act == StampAttempts(me.activity, 1, rs.response,
                                        me.attempts)
                   disposition == GetDisposition(o.err, rs.response)
               IN sessions' = [sessions EXCEPT
                                 ![s].activity = act,
                                 ![s].pc = "done",
                                 ![s].tries = Append(@, try),
                                 ![s].outcome =
                                   [kind |-> IF disposition = "error"
                                             THEN "rejected" ELSE "resolved",
                                    error |-> IF disposition # "error"
                                              THEN NoError ELSE o.err,
                                    response |-> rs.response,
                                    result |-> <<>>,
                                    activity |-> act,
                                    settled |-> me.outcome.settled + 1]]
  /\ UNCHANGED <<session, input, output>>

\* The retry timer of call s fires.
OverlapRetryTimer(s) ==
  /\ s \in 1..Len(sessions)
  /\ sessions[s].pc = "retryWait"
  /\ sessions' = [sessions EXCEPT ![s].pc = "sending",
                                  ![s].attempts = @ + 1,
                                  ![s].attemptsLeft = @ - 1]
  /\ UNCHANGED <<session, input, output>>

NextOverlap ==
  \/ OverlapGet
  \/ \E s \in 1..2 : OverlapRespond(s)
  \/ \E s \in 1..2 : OverlapRetryTimer(s)

SpecOverlap == InitOverlap /\ [][NextOverlap]_vars

\* The delay entry a retried attempt leaves on its own call's record.
OwnDelay(try) ==
  IF try.statusCode = 403
  THEN [kind |-> "forbidden", ms |-> DefaultForbiddenDelay]
  ELSE [kind |-> "retry", ms |-> DefaultRetryDelay]

(***************************************************************************)
(* C25: two get calls on the same pre-configured requestor that overlap    *)
(* in time keep their activity apart under every interleaving: each        *)
(* call's activity holds exactly one record, whose delay entries are those *)
(* of the call's own retried attempts, in order, and a delivered response  *)
(* carries that record with the call's own attempt count.                  *)
(***************************************************************************)
C25_OverlappingCallsKeepOwnRecords ==
  \A s \in 1..Len(sessions) :
    LET me == sessions[s]
        record == me.activity[1]
        retried == SelectSeq(me.tries, LAMBDA t : t.retried)
    IN /\ Len(me.activity) = 1
       /\ Len(record.delays) = Len(retried)
       /\ \A i \in 1..Len(retried) : record.delays[i] = OwnDelay(retried[i])
       /\ me.pc = "done" =>
            /\ me.outcome.activity = me.activity
            /\ me.outcome.settled = 1
            /\ HasResponse(me.outcome.response) =>
                 /\ record.attempts = Len(me.tries)
                 /\ me.outcome.response.attempts = Len(me.tries)

\* Both calls are over: the first was retried after a 403 and the second,
\* started meanwhile, after a 500; each has made two attempts.
C25_Witness ==
  /\ Len(sessions) = 2
  /\ sessions[1].pc = "done" /\ sessions[2].pc = "done"
  /\ sessions[1].activity[1].delays =
       <<[kind |-> "forbidden", ms |-> DefaultForbiddenDelay]>>
  /\ sessions[2].activity[1].delays =
       <<[kind |-> "retry", ms |-> DefaultRetryDelay]>>
  /\ sessions[1].activity[1].attempts = 2
  /\ sessions[2].activity[1].attempts = 2

\* The delay entry the session records for a retried attempt.
DelayEntryOf(try) ==
  IF try.statusCode = 403 /\ options.forbiddenDelay # 0
  THEN ForbiddenEntry ELSE RetryEntry

(***************************************************************************)
(* C26: every terminal error of get or getAllResponses, delivered as a     *)
(* rejection or to the completion callback, carries the session's whole    *)
(* activity at that point: one record for every page fetched so far, the   *)
(* failing page included, and on the failing page's record one delay       *)
(* entry for each of its retried attempts.                                 *)
(***************************************************************************)
C26_ErrorCarriesActivity ==
  outcome.kind = "rejected" =>
    /\ outcome.error # NoError
    /\ trace.page = cur
    /\ LastTry.error
    /\ Len(outcome.activity) = cur
    /\ \A p \in 1..(cur - 1) :
         /\ outcome.activity[p].attempts # Undefined
         /\ result[p].page = p
    /\ Len(outcome.activity[cur].delays) = NTries - 1
    /\ \A i \in 1..(NTries - 1) :
         outcome.activity[cur].delays[i] = DelayEntryOf(Tries[i])

\* A pagination run given a callback fails on its second page after one
\* retry: the error carries both pages' records, the second with its delay.
C26_Witness ==
  /\ outcome.kind = "rejected"
  /\ call.callback
  /\ entry = "getAll"
  /\ cur = 2
  /\ NTries = 2
  /\ Len(outcome.activity) = 2
  /\ outcome.activity[2].delays = <<RetryEntry>>

(***************************************************************************)
(* C27 as claimed: a page response whose link header is malformed makes    *)
(* the pagination run end in a hard error delivered to the caller; the     *)
(* page is not retried, and pagination neither continues nor completes as  *)
(* a success.                                                              *)
(***************************************************************************)
C27_MalformedLinkIsHardError ==
  ( /\ entry = "getAll"
    /\ PageDelivered
    /\ ~LastTry.error
    /\ LastTry.statusCode = 200
    /\ LastTry.link = "malformed" ) =>
      /\ ~LastTry.retried
      /\ pc = "done"
      /\ outcome.kind = "rejected"

(***************************************************************************)
(* Sessions under fair scheduling: every request handed to the transport   *)
(* eventually completes and every timer that was set eventually fires.     *)
(***************************************************************************)
\* The retry budget varies; forbiddenDelay is 0, so that a 403 is a failure
\* like any other and only transport errors and 5xx responses are retried.
LiveOptions == [maxAttempts : 1..MaxAttemptsBound, forbiddenDelay : {0}]

InitLive ==
  /\ \E g \in LiveOptions :
       /\ options = RequestorAction(g)
       /\ input = ConstructorArguments(g)
  /\ NotCalled
  /\ call = NoCall
  /\ sessions = <<>>

\* get and getAllResponses: the session's own steps, without the flattening
\* that GHRequestor.getAll chains to the promise.
NextLive == get \/ getAll \/ Respond \/ RetryTimer \/ ThrottleTimer

SpecLive ==
  /\ InitLive
  /\ [][NextLive]_vars
  /\ WF_vars(Respond)
  /\ WF_vars(RetryTimer)
  /\ WF_vars(ThrottleTimer)

\* The session has been started and has not delivered its outcome.
Running == pc \in {"sending", "retryWait", "throttleWait"}

\* The outcome of the run has been delivered.
Terminal == pc = "done" /\ outcome.kind \in {"resolved", "rejected"}

\* The page's attempts are exhausted by a failing last attempt, and its
\* outcome has been delivered.
Exhausted ==
  /\ PageDelivered
  /\ NTries = options.maxAttempts
  /\ LastTry.approved

\* No page is attempted more than maxAttempts times, and a page whose last
\* allowed attempt fails ends with that attempt's response or error.
RetryingStops ==
  Traced =>
    /\ NTries <= options.maxAttempts
    /\ \A i \in 1..NTries : Tries[i].retried => i < options.maxAttempts
    /\ Exhausted =>
         /\ Terminal
         /\ LastTry.error => outcome.kind = "rejected"
         /\ (~LastTry.error /\ entry = "get") =>
              /\ outcome.kind = "resolved"
              /\ outcome.response.statusCode = LastTry.statusCode
              /\ outcome.response.attempts = NTries
         /\ (~LastTry.error /\ entry = "getAll") =>
              /\ outcome.kind = "resolved"
              /\ outcome.result[cur].statusCode = LastTry.statusCode
              /\ outcome.result[cur].attempts = NTries

(***************************************************************************)
(* C28: when every transport request eventually completes and every timer  *)
(* eventually fires, a session that was started eventually delivers its    *)
(* outcome; no page is attempted more than maxAttempts times, and when the *)
(* last allowed attempt fails, its response or error is the page's         *)
(* outcome.                                                                *)
(***************************************************************************)
C28_RunsToTerminalState ==
  /\ []RetryingStops
  /\ Running ~> Terminal

\* A page of a pagination run has used all its attempts on 500 responses
\* and the run has ended with the last of them.
C28_Witness ==
  /\ Exhausted
  /\ Terminal
  /\ entry = "getAll"
  /\ options.maxAttempts = MaxAttemptsBound
  /\ NTries = MaxAttemptsBound
  /\ LastTry.statusCode = 500

\* What lets the governor act on a response: it is a successful one, its
\* remaining quota is below tokenLowerBound, and delayOnThrottle is set.
GovernorMayAct(error, statusCode, remaining) ==
  /\ ~error
  /\ statusCode < 300
  /\ ParseIntOr0(remaining) < options.tokenLowerBound
  /\ options.delayOnThrottle

(***************************************************************************)
(* C29: rateLimitDelay is recorded on a page's Activity Record only if the *)
(* page's final response had a status < 300 and a remaining quota below    *)
(* tokenLowerBound and delayOnThrottle is true.  For a page that ended in  *)
(* a transport error or in a response with status >= 300 (304 and an       *)
(* exhausted 403 or 5xx included), and whenever delayOnThrottle is false,  *)
(* rateLimitDelay is absent and the outcome is delivered without a         *)
(* proactive wait.                                                         *)
(***************************************************************************)
C29_GovernorActsOnSuccessOnly ==
  Traced =>
    /\ Rec.rateLimitDelay # Undefined =>
         /\ PageReceived
         /\ GovernorMayAct(LastTry.error, LastTry.statusCode,
                           LastTry.remaining)
    /\ pc = "throttleWait" => Rec.rateLimitDelay # Undefined
    /\ ( /\ PageReceived
         /\ ~GovernorMayAct(LastTry.error, LastTry.statusCode,
                            LastTry.remaining) ) =>
           /\ Rec.rateLimitDelay = Undefined
           /\ trace.toSleep = Undefined
           /\ trace.delivered = 1
           /\ trace.deliveredAt = trace.receivedAt
    /\ \A p \in 1..Len(result) :
         activity[p].rateLimitDelay # Undefined =>
           GovernorMayAct(FALSE, result[p].statusCode, result[p].remaining)

\* With delayOnThrottle set and outside test mode, a page answered 304 with
\* a low remaining quota is delivered at once, without rateLimitDelay.
C29_Witness ==
  /\ PageDelivered
  /\ options.delayOnThrottle
  /\ options.mode = "live"
  /\ LastTry.statusCode = 304
  /\ LastTry.remaining = 20
  /\ Rec.rateLimitDelay = Undefined
  /\ trace.deliveredAt = trace.receivedAt

\* The quota-reset header of a response read as epoch seconds, in
\* milliseconds: (parseInt(header) || 0) * 1000.
ResetInstant(header) == ParseIntOr0(header) * 1000

(***************************************************************************)
(* C30: whenever rateLimitDelay is recorded it equals                      *)
(* max(reset * 1000 - now, 2000), reset being the response's quota-reset   *)
(* header read as epoch seconds and now the instant, in milliseconds, at   *)
(* which the response was received; it is exactly 2000 whenever the reset  *)
(* instant is in the past, less than two seconds ahead, or unparseable,    *)
(* and it is never below 2000.                                             *)
(***************************************************************************)
C30_RateLimitDelayValue ==
  /\ \A p \in 1..Len(activity) :
       activity[p].rateLimitDelay # Undefined =>
         activity[p].rateLimitDelay >= 2000
  /\ (Traced /\ Rec.rateLimitDelay # Undefined) =>
       LET ahead == ResetInstant(LastTry.reset) - trace.receivedAt
       IN /\ Rec.rateLimitDelay = IF ahead >= 2000 THEN ahead ELSE 2000
          /\ ahead < 2000 => Rec.rateLimitDelay = 2000
          /\ LastTry.reset = NaN => Rec.rateLimitDelay = 2000
          /\ pc = "throttleWait" => timer = now + Rec.rateLimitDelay

\* The first page's reset instant was five seconds ahead and its delay is
\* 5000; the second page's reset instant is in the past and its delay 2000.
C30_Witness ==
  /\ Traced
  /\ trace.page = 2
  /\ activity[1].rateLimitDelay = 5000
  /\ LastTry.reset # NaN
  /\ ResetInstant(LastTry.reset) < trace.receivedAt
  /\ Rec.rateLimitDelay = 2000

(***************************************************************************)
(* Sessions whose attempt budget leaves room for more than one retry of    *)
(* the same page, with the retry of a 403 switched on: a page may be       *)
(* retried after a 403, after a 5xx and after a transport error, in any    *)
(* order.  The governor is off, so no response is held back.               *)
(***************************************************************************)
RetryBudget == MaxAttemptsBound + 1

RetryOptions ==
  [maxAttempts : {RetryBudget}, forbiddenDelay : {DefaultForbiddenDelay},
   delayOnThrottle : {FALSE}]

InitRetries ==
  /\ \E g \in RetryOptions :
       /\ options = RequestorAction(g)
       /\ input = ConstructorArguments(g)
  /\ NotCalled
  /\ call = NoCall
  /\ sessions = <<>>

\* What an attempt on page p meets: a transport error, without a response
\* or with one, a 200 page with ample quota, or a 403 or a 500.
RetryOutcomes(p, t) ==
  {[err |-> NetworkError, response |-> NoResponse],
   [err |-> NetworkError, response |-> ErrorResponse(p)]}
  \cup {[err |-> NoError,
         response |-> MakeResponse(200, [remaining |-> 4000,
                                         reset |-> (t \div 1000) + 5],
                                   l, p)] : l \in Links(p)}
  \cup {[err |-> NoError,
         response |-> MakeResponse(code, LowQuota(t),
                                   IF p < MaxPages THEN "next" ELSE "", p)] :
          code \in {403, 500}}

RetryRespond ==
  /\ pc = "sending"
  /\ UNCHANGED <<aside, call>>
  /\ \E o \in RetryOutcomes(cur, now) : Answer(o)

NextRetries == getAll \/ RetryRespond \/ RetryTimer

SpecRetries == InitRetries /\ [][NextRetries]_vars

\* The delay entry that belongs to an attempt that was retried.
EntryFor(try) ==
  IF try.statusCode = 403
  THEN [kind |-> "forbidden", ms |-> options.forbiddenDelay]
  ELSE [kind |-> "retry", ms |-> options.retryDelay]

\* The delay entries of the page being fetched are those of its retried
\* attempts, one each and in attempt order, and the records of the pages
\* before it hold no entry beyond those of their own retries.
DelayEntriesInPlace ==
  Traced =>
    /\ \A i \in 1..NTries : Tries[i].retried <=> i <= Len(Rec.delays)
    /\ Len(Rec.delays) <= NTries
    /\ \A i \in 1..Len(Rec.delays) : Rec.delays[i] = EntryFor(Tries[i])
    /\ \A p \in 1..(trace.page - 1) :
         Len(activity[p].delays) = result[p].attempts - 1
    /\ pc = "retryWait" =>
         /\ Len(Rec.delays) = NTries
         /\ timer = now + Rec.delays[NTries].ms

\* When the retry timer fires and the next attempt is made, the time that
\* has passed since the failed attempt is the delay of the last entry.
WaitedAsRecorded ==
  (pc = "retryWait" /\ pc' = "sending") =>
    /\ now' - now = Rec.delays[Len(Rec.delays)].ms
    /\ activity' = activity

\* No step of a page's fetch touches the record of an earlier page.
EarlierRecordsKept ==
  (pc \in {"sending", "retryWait"}) =>
    \A p \in 1..(Len(activity) - 1) :
      /\ p <= Len(activity')
      /\ activity'[p] = activity[p]

(***************************************************************************)
(* C31: every retry of a page appends exactly one delay entry to the       *)
(* Activity Record of the page being fetched, never to the record of an    *)
(* earlier page, in attempt order; the i-th entry is                       *)
(* {forbidden: forbiddenDelay} when the i-th attempt was answered 403 and  *)
(* {retry: retryDelay} otherwise, whatever the earlier attempts returned;  *)
(* and the time waited before the next attempt is the value recorded in    *)
(* the entry.                                                              *)
(***************************************************************************)
C31_OneEntryPerRetry ==
  /\ []DelayEntriesInPlace
  /\ [][WaitedAsRecorded /\ EarlierRecordsKept]_vars

\* The second page of a run is waiting for its third attempt: its first
\* attempt was answered 403 and its second 500, and its record holds the
\* forbidden entry and then the retry entry.  The first page had been retried
\* after a transport error and then after a 403: its record holds its own
\* two entries, in the opposite order.
C31_Witness ==
  /\ trace.page = 2
  /\ pc = "retryWait"
  /\ NTries = 2
  /\ Tries[1].statusCode = 403
  /\ Tries[2].statusCode = 500
  /\ Rec.delays = <<ForbiddenEntry, RetryEntry>>
  /\ activity[1].delays = <<RetryEntry, ForbiddenEntry>>
  /\ timer = now + options.retryDelay

\* The number of attempts of the traced page that were followed by a retry.
Retries == Cardinality({i \in 1..NTries : Tries[i].retried})

\* Page p of the session is completed: its outcome has reached _get's
\* completion callback.
Completed(p) ==
  \/ p < Len(activity)
  \/ p = Len(activity) /\ PageReceived /\ trace.page = p

(***************************************************************************)
(* C32: on the Activity Record of every completed page, whatever the       *)
(* attempts returned, the number of delay entries is the number of retries *)
(* made for the page, delays is absent exactly when the page needed no     *)
(* retry, and attempts, when present, equals the number of delay entries   *)
(* plus one.                                                               *)
(***************************************************************************)
C32_DelaysCountRetries ==
  /\ \A p \in 1..Len(activity) :
       Completed(p) =>
         /\ activity[p].hasDelays = (Len(activity[p].delays) > 0)
         /\ activity[p].attempts # Undefined =>
              activity[p].attempts = Len(activity[p].delays) + 1
  /\ PageReceived =>
       /\ Len(Rec.delays) = Retries
       /\ Retries = NTries - 1
       /\ Rec.hasDelays = (NTries > 1)

\* A run whose first page needed no retry and whose second page was
\* answered on its second attempt.
C32_Witness ==
  /\ PageReceived
  /\ trace.page = 2
  /\ ~activity[1].hasDelays
  /\ activity[1].attempts = 1
  /\ NTries = 2
  /\ Len(Rec.delays) = 1
  /\ Rec.attempts = 2

\* s is an initial part of t.
IsPrefix(s, t) ==
  /\ Len(s) <= Len(t)
  /\ \A i \in 1..Len(s) : s[i] = t[i]

\* A field that is absent may be set; one that is set keeps its value.
SetOnce(old, new) == old = Undefined \/ new = old

\* While the first attempt of a page is in flight, the page's record is
\* already the last of the activity sequence, and it is still empty.
RecordCreatedAtStart ==
  (pc = "sending" /\ attempts = 1) =>
    /\ Len(activity) = cur
    /\ activity[cur] = NewActivity
    /\ Len(result) = cur - 1

\* A step of the session keeps every record in its place and only adds to
\* it: delay entries are appended, absent fields are set.
ActivityOnlyGrows ==
  /\ Len(activity') >= Len(activity)
  /\ \A p \in 1..Len(activity) :
       /\ IsPrefix(activity[p].delays, activity'[p].delays)
       /\ activity[p].hasDelays => activity'[p].hasDelays
       /\ SetOnce(activity[p].attempts, activity'[p].attempts)
       /\ SetOnce(activity[p].rateLimitDelay, activity'[p].rateLimitDelay)
  /\ (pc \in {"sending", "retryWait"} /\ pc' \in {"sending", "retryWait"}
      /\ cur' = cur) => Len(activity') = Len(activity)

(***************************************************************************)
(* C33: the Activity Record of a page is appended to the session's         *)
(* activity when the page's fetch begins, before the outcome of its first  *)
(* attempt is known; across the page's retries that record is updated in   *)
(* place; and during a session the activity only grows: no record is       *)
(* removed, replaced or reordered, and the delay entries of a record are   *)
(* only appended to.                                                       *)
(***************************************************************************)
C33_ActivityGrowsInPlace ==
  []RecordCreatedAtStart /\ [][ActivityOnlyGrows]_vars

\* The second page's record, created when its fetch began, holds the entry
\* of one retry and the attempt count, after the first page's record.
C33_Witness ==
  /\ PageReceived
  /\ trace.page = 2
  /\ Len(activity) = 2
  /\ activity[1].attempts = 1
  /\ Len(Rec.delays) = 1
  /\ Rec.attempts = 2
  /\ Rec.rateLimitDelay # Undefined

(***************************************************************************)
(* C34 as claimed: the configuration is read-only during a session.  After *)
(* each page fetch has been issued, and at every later point, the          *)
(* session's options are those built at construction: the etag header of a *)
(* page is on the copy handed to the transport only, and the logging       *)
(* wrapper around the retry strategy has been removed again.  The          *)
(* session's options are an object of its own, so that the options         *)
(* supplied by the caller, or kept in a defaults template, are not         *)
(* modified by running the session.                                        *)
(***************************************************************************)
C34_ConfigurationReadOnly ==
  /\ options = RequestorAction(input.givenOptions)
  /\ options.retryStrategy = "_retryStrategy"
  /\ options.delayStrategy = "_retryDelayStrategy"
  /\ IfNoneMatch(options.headers) = NoEtag
  /\ MergedObject(_defaultOptions, input.givenOptions) = "new"
  /\ input.givenOptions \in EtagOptions
  /\ (pc # "idle" /\ ConfiguredEtag(cur) # NoEtag) =>
       IfNoneMatch(request) = ConfiguredEtag(cur)

(***************************************************************************)
(* C35: the attempts field of a page's Activity Record is set if and only  *)
(* if the final attempt of the page produced a response.  When earlier     *)
(* attempts received responses but the last allowed attempt ends in a      *)
(* transport error, attempts is absent although delays holds the entries   *)
(* of the earlier retries.                                                 *)
(***************************************************************************)
Responded(try) == try.statusCode # 0

C35_AttemptsIffFinalResponse ==
  Traced =>
    /\ ~PageReceived => Rec.attempts = Undefined
    /\ PageReceived =>
         /\ (Rec.attempts # Undefined) <=> Responded(LastTry)
         /\ Responded(LastTry) => Rec.attempts = NTries
         /\ ~Responded(LastTry) =>
              /\ NTries = options.maxAttempts
              /\ Len(Rec.delays) = NTries - 1
              /\ \A i \in 1..(NTries - 1) :
                   Rec.delays[i] = EntryFor(Tries[i])

\* The first attempt was answered 500, the second and last ended in a
\* transport error: attempts is absent, delays holds the retry's entry.
C35_Witness ==
  /\ PageReceived
  /\ NTries = 2
  /\ Tries[1].statusCode = 500
  /\ Tries[2].error
  /\ ~Responded(Tries[2])
  /\ Rec.attempts = Undefined
  /\ Rec.delays = <<RetryEntry>>
  /\ outcome.kind = "rejected"

\* The page's final response is a successful one whose remaining-quota
\* header is missing or is not a number.
NoQuotaHeader ==
  /\ PageReceived
  /\ ~LastTry.error
  /\ LastTry.statusCode < 300
  /\ LastTry.remaining = NaN

(***************************************************************************)
(* C36: a successful response (status < 300) without a remaining-quota     *)
(* header, or with one that is not a number, is treated as having no quota *)
(* left: with delayOnThrottle set and tokenLowerBound > 0 the governor     *)
(* records a rateLimitDelay of at least 2000 ms for it and, outside test   *)
(* mode, holds the response that long before delivering it.                *)
(***************************************************************************)
C36_MissingQuotaTriggersGovernor ==
  (NoQuotaHeader /\ options.delayOnThrottle /\ options.tokenLowerBound > 0) =>
    /\ Rec.rateLimitDelay # Undefined
    /\ Rec.rateLimitDelay >= 2000
    /\ options.mode # "test" =>
         \/ /\ pc = "throttleWait"
            /\ trace.delivered = 0
            /\ timer = trace.receivedAt + Rec.rateLimitDelay
         \/ /\ trace.delivered = 1
            /\ trace.deliveredAt = trace.receivedAt + Rec.rateLimitDelay
    /\ options.mode = "test" =>
         /\ trace.delivered = 1
         /\ trace.deliveredAt = trace.receivedAt

\* Outside test mode a 200 response without quota headers has been held
\* for 2000 ms and is now delivered.
C36_Witness ==
  /\ NoQuotaHeader
  /\ options.delayOnThrottle
  /\ options.mode = "live"
  /\ Rec.rateLimitDelay = 2000
  /\ trace.delivered = 1
  /\ trace.deliveredAt = trace.receivedAt + 2000

\* The transport requests the session has issued so far: the attempts that
\* have completed, and the one in flight.
Requests == trace.attempted + IF pc = "sending" THEN 1 ELSE 0

(***************************************************************************)
(* C37: whatever the attempts return (transport errors, 403, 5xx, other    *)
(* statuses, in any order), no page is attempted more than maxAttempts     *)
(* times and no record holds more than maxAttempts - 1 delay entries;      *)
(* hence a session that has started P pages has issued at most             *)
(* P * maxAttempts transport requests.                                     *)
(***************************************************************************)
C37_AttemptsBounded ==
  /\ Traced => NTries <= options.maxAttempts
  /\ attempts <= options.maxAttempts
  /\ \A p \in 1..Len(activity) :
       /\ Len(activity[p].delays) <= options.maxAttempts - 1
       /\ activity[p].attempts # Undefined =>
            activity[p].attempts <= options.maxAttempts
  /\ Requests <= Len(activity) * options.maxAttempts
  /\ Requests >= Len(activity)

\* Both pages of a run used every attempt, on a mix of failures: the
\* session has issued 2 * maxAttempts requests.
C37_Witness ==
  /\ pc = "done"
  /\ Len(activity) = 2
  /\ options.maxAttempts = MaxAttemptsBound
  /\ Requests = 2 * MaxAttemptsBound
  /\ Tries[1].statusCode = 403
  /\ LastTry.error

\* The page's final outcome ends the call: a single fetch always, a
\* pagination run on an error, a failing status or a page without next.
EndsCall ==
  \/ entry = "get"
  \/ LastTry.error
  \/ FailingStatus
  \/ ~CarriesNext

\* The outcome of the call is delivered once, when the page that ends the
\* call has been delivered, and not before.
DeliveredOnce ==
  /\ outcome.settled <= 1
  /\ (outcome.settled = 1) <=> (pc = "done")
  /\ (pc = "done") <=> (outcome.kind # "pending")
  /\ Traced =>
       /\ trace.delivered <= 1
       /\ (PageDelivered /\ EndsCall) => pc = "done"
       /\ pc = "done" => (PageDelivered /\ EndsCall)
       /\ pc = "throttleWait" => trace.delivered = 0

\* Once the outcome is delivered the session makes no request and changes
\* neither its result nor its activity nor the outcome.
NothingAfterDelivery ==
  pc = "done" =>
    /\ pc' = "done"
    /\ outcome' = outcome
    /\ result' = result
    /\ activity' = activity
    /\ trace' = trace
    /\ request' = request

(***************************************************************************)
(* C38: every get and getAllResponses call delivers its outcome exactly    *)
(* once, whether its last page ended by success, by the expiry of the      *)
(* proactive delay, by a status >= 300 or by an error; and once the        *)
(* outcome is delivered the session issues no further transport request    *)
(* and appends nothing to its result or its activity.                      *)
(***************************************************************************)
C38_OutcomeDeliveredOnce ==
  []DeliveredOnce /\ [][NothingAfterDelivery]_vars

\* A pagination run has delivered its outcome, at the expiry of the
\* proactive delay of its second page, and getAll's promise has then been
\* settled without the session moving.
C38_Witness ==
  /\ entry = "getAll"
  /\ pc = "done"
  /\ outcome.settled = 1
  /\ cur = 2
  /\ trace.deliveredAt > trace.receivedAt
  /\ output.kind # "none"

\* The pages of the settled run that were answered with 304.
NotModifiedPages ==
  {i \in 1..Len(outcome.result) : outcome.result[i].statusCode = 304}

(***************************************************************************)
(* C39: getAll hands flattenResponses no supplier: whenever a page of the  *)
(* run was answered with 304, getAll's promise is rejected with the        *)
(* missing-supplier error although getAllResponses resolved with the       *)
(* pages of that run.                                                      *)
(***************************************************************************)
C39_GetAllRejectsNotModified ==
  (GetAllFlattened /\ NotModifiedPages # {}) =>
    /\ output.kind = "rejected"
    /\ output.error = NoSupplierError
    /\ output.value = <<>>

\* getAllResponses resolved with two pages, the first 200 and the second
\* 304, none with a failing status, and getAll's promise was rejected.
C39_Witness ==
  /\ GetAllFlattened
  /\ Len(outcome.result) = 2
  /\ outcome.result[1].statusCode = 200
  /\ NotModifiedPages = {2}
  /\ output.kind = "rejected"

\* Attempt i of the traced page was answered with 403.
Forbidden(i) == ~Tries[i].error /\ Tries[i].statusCode = 403

(***************************************************************************)
(* C40: when forbiddenDelay is 0, a 403 response is not retried at all:    *)
(* it is the page's last attempt, the page settles with the 403 response   *)
(* and no delay entry is recorded for it; with a positive forbiddenDelay a *)
(* 403 is approved for a retry and retried while attempts remain, after    *)
(* the forbidden delay.                                                    *)
(***************************************************************************)
C40_ForbiddenDelaySwitch ==
  Traced =>
    \A i \in 1..NTries :
      Forbidden(i) =>
        IF options.forbiddenDelay = 0
        THEN /\ ~Tries[i].approved
             /\ ~Tries[i].retried
             /\ i = NTries
             /\ pc \in {"throttleWait", "done"}
             /\ Len(Rec.delays) = i - 1
             /\ \A d \in 1..Len(Rec.delays) : Rec.delays[d] = RetryEntry
             /\ Rec.attempts = i
             /\ PageDelivered =>
                  /\ outcome.kind = "resolved"
                  /\ entry = "get" => outcome.response.statusCode = 403
                  /\ entry = "getAll" =>
                       outcome.result[Len(outcome.result)].statusCode = 403
        ELSE /\ Tries[i].approved
             /\ Tries[i].retried = (i < options.maxAttempts)
             /\ Tries[i].retried =>
                  /\ Len(Rec.delays) >= i
                  /\ Rec.delays[i] = ForbiddenEntry
                  /\ (i = NTries /\ pc = "retryWait") =>
                       timer = now + options.forbiddenDelay

\* With forbiddenDelay 0 and attempts to spare, a page's first attempt was
\* answered with 403 and the page was delivered with it, without a delay.
C40_Witness ==
  /\ PageDelivered
  /\ options.forbiddenDelay = 0
  /\ options.maxAttempts = MaxAttemptsBound
  /\ NTries = 1
  /\ Forbidden(1)
  /\ Rec.delays = <<>>
  /\ Rec.attempts = 1

=============================================================================
